---- MODULE Spec2Model ----
(***************************************************************************)
(* A model of the request-time serving pipeline of the Ignis wildfire risk *)
(* API (ml_backend/production_api.py, ml_backend/weather_service.py).      *)
(*                                                                         *)
(* The module holds four state machines over one set of variables:         *)
(*   SpecWeather   OpenMeteoWeatherService.get_current_weather called by   *)
(*                 concurrent coroutines: cache, rate limiter, fallback    *)
(*   SpecBatch     predict_wildfire_risk / process_area_batch /            *)
(*                 process_single_area: batches, gather, failure isolation *)
(*   SpecFeatures  prepare_enhanced_features, the 48-slot feature vector   *)
(*   SpecPredict   make_ensemble_prediction, blending and the risk level   *)
(* Each specification moves its own variables and leaves the others alone. *)
(*                                                                         *)
(* Time is time.time() in whole seconds.  Coordinates are thousandths of a *)
(* degree.  Probabilities, scores and feature values are exact rationals   *)
(* (the source computes them in binary floating point; rounding error of   *)
(* the float operations is not modelled).                                  *)
(***************************************************************************)
EXTENDS Integers, Sequences, FiniteSets, TLC

(***************************************************************************)
(* Bounds of the model.                                                    *)
(***************************************************************************)
\* concurrent coroutines that call get_current_weather
NumCallers == 2
\* get_current_weather calls started in one behaviour
MaxCalls == 2
\* time.time() when the service is constructed (seconds; far above 0)
StartTime == 1000
\* advances of the clock in one behaviour
MaxTicks == 1

\* class probabilities are multiples of 1/ProbGrid
ProbGrid == 4
\* fire incidents in one request
MaxIncidents == 2
\* areas per batch (25 at production_api.py line 136, scaled down)
batch_size == 2
\* areas in one request: one more than a batch
MaxAreas == batch_size + 1
\* /predict requests in flight at the same time
NumClients == 2
Clients == 1..NumClients

Callers == 1..NumCallers
\* the clock advances by half the rate limiter's interval, or by a whole
\* cache lifetime
TickSteps == {5, 600}

(***************************************************************************)
(* Exact arithmetic for the source's float values.  A number is a record   *)
(* [n, d] in lowest terms with d > 0.  d = 0 marks the value of a division *)
(* by zero (Python raises ZeroDivisionError there); it is not a finite     *)
(* number and every operation on it gives it again.                        *)
(***************************************************************************)
Abs(x) == IF x < 0 THEN -x ELSE x

RECURSIVE GCD(_, _)
GCD(a, b) == IF b = 0 THEN a ELSE GCD(b, a % b)

NonFinite == [n |-> 1, d |-> 0]

Q(n, d) ==
    IF d = 0 THEN NonFinite
    ELSE LET g == GCD(Abs(n), Abs(d))
             sgn == IF d < 0 THEN -1 ELSE 1
         IN [n |-> sgn * (n \div g), d |-> sgn * (d \div g)]

QInt(k) == [n |-> k, d |-> 1]
IsFinite(a) == a.d > 0
\* sums over the least common denominator and products after
\* cross-cancelling, so that intermediate values stay small
QAdd(a, b) ==
    IF a.d = 0 \/ b.d = 0 THEN NonFinite
    ELSE LET g == GCD(a.d, b.d)
         IN Q(a.n * (b.d \div g) + b.n * (a.d \div g), (a.d \div g) * b.d)
QSub(a, b) == QAdd(a, [n |-> -b.n, d |-> b.d])
QMul(a, b) ==
    IF a.d = 0 \/ b.d = 0 THEN NonFinite
    ELSE IF a.n = 0 \/ b.n = 0 THEN QInt(0)
    ELSE LET g1 == GCD(Abs(a.n), b.d)
             g2 == GCD(Abs(b.n), a.d)
         IN Q((a.n \div g1) * (b.n \div g2), (a.d \div g2) * (b.d \div g1))
QDiv(a, b) ==
    IF b.n = 0 \/ b.d = 0 THEN NonFinite
    ELSE QMul(a, Q(b.d, b.n))
QLt(a, b) ==
    IF a.d = 0 \/ b.d = 0 THEN a.n * b.d < b.n * a.d
    ELSE LET g == GCD(a.d, b.d)
         IN a.n * (b.d \div g) < b.n * (a.d \div g)
QLe(a, b) ==
    IF a.d = 0 \/ b.d = 0 THEN a.n * b.d <= b.n * a.d
    ELSE LET g == GCD(a.d, b.d)
         IN a.n * (b.d \div g) <= b.n * (a.d \div g)
QGt(a, b) == QLt(b, a)
QGe(a, b) == QLe(b, a)
QMin(a, b) == IF QLt(b, a) THEN b ELSE a
QMax(a, b) == IF QGt(b, a) THEN b ELSE a
\* int(x): truncation toward zero
QTrunc(a) == IF a.n >= 0 THEN a.n \div a.d ELSE -((-a.n) \div a.d)

(***************************************************************************)
(* OpenMeteoWeatherService: constants of __init__ and get_current_weather. *)
(***************************************************************************)
min_request_interval == 10
cache_duration == 600
request_timeout == 15

\* (latitude, longitude) arguments, in thousandths of a degree.  The first
\* two round to the same 2-decimal key, the third to another one.  None is
\* a rounding tie (last digit 5).
Coords == { <<34019, -118491>>, <<34021, -118494>>, <<34031, -117400>> }

\* "{x:.2f}": x rounded to hundredths of a degree (round to nearest)
Round2(x) == (x + 5) \div 10

\* cache_key = f"weather_{latitude:.2f}_{longitude:.2f}"
cache_key(latitude, longitude) == <<Round2(latitude), Round2(longitude)>>

\* A weather observation.  data_source is "open_meteo" for a processed
\* response (the dict of _process_current_weather has no data_source key),
\* "fallback_estimates" for _get_fallback_weather_data.  serial identifies
\* the response the values were read from (0: none), defaults says whether
\* fields were filled by the .get defaults of _process_current_weather.
NoObs == [data_source |-> "none", serial |-> 0, defaults |-> FALSE]

\* _process_current_weather(data): every field is read with .get and a
\* default, so a payload with fields missing is processed like a full one
_process_current_weather(serial, missing) ==
    [data_source |-> "open_meteo", serial |-> serial, defaults |-> missing]

\* _get_fallback_weather_data(latitude, longitude)
_get_fallback_weather_data(latitude, longitude) ==
    [data_source |-> "fallback_estimates", serial |-> 0, defaults |-> FALSE]

\* What the awaited network call and the processing of its payload can do.
\*   ok              2xx, complete payload
\*   missing_fields  2xx, payload with keys missing ({} for instance)
\*   http_429        raise_for_status() raises HTTPStatusError, status 429
\*   http_error      raise_for_status() raises HTTPStatusError, other status
\*   transport_error client.get raises httpx.TransportError
\*   timeout         client.get raises httpx.TimeoutException after 15 s
\*   invalid_json    2xx, response.json() raises JSONDecodeError (line 67)
\*   malformed       2xx, the payload is parsed but a field is null or
\*                   ill-typed and _process_current_weather raises
\*                   TypeError (line 71)
NetOutcomes == {"ok", "missing_fields", "http_429", "http_error",
                "transport_error", "timeout", "invalid_json", "malformed"}

\* Received for a service that stamps last_request_time after every request
Received_always(outcome) == outcome = outcome

\* the outcomes in which the async with block (lines 64-67) ends without an
\* exception, so that line 69 is reached
Received(outcome) == outcome \in {"ok", "missing_fields", "malformed"}

\* the exception class an outcome raises inside the try block, "none" if none
Raised(outcome) ==
    CASE outcome \in {"ok", "missing_fields"} -> "none"
      [] outcome \in {"http_429", "http_error"} -> "HTTPStatusError"
      [] outcome = "transport_error" -> "TransportError"
      [] outcome = "timeout" -> "TimeoutException"
      [] outcome = "invalid_json" -> "JSONDecodeError"
      [] outcome = "malformed" -> "TypeError"

VARIABLES
    now,                \* time.time()
    last_request_time,  \* OpenMeteoWeatherService.last_request_time
    cache,              \* OpenMeteoWeatherService.cache: key -> (data, time)
    call,               \* per coroutine: its get_current_weather call
    calls_started,      \* number of calls started so far
    ticks,              \* number of advances of the clock so far
    net_starts,         \* history: the start times of the network requests
    proba,              \* make_ensemble_prediction: the two predict_proba rows
    prediction_result,  \* make_ensemble_prediction: the returned dict
    feature_input,      \* prepare_enhanced_features: arguments and clock readings
    features,           \* prepare_enhanced_features: the returned dict
    startup_load,       \* startup_event: how the load of the model bundle ended
    model_loaded,       \* production_api.py: the global model_loaded
    predictor_models,   \* predictor.models and predictor.scalers: where from
    trainings,          \* number of runs of the training so far
    request,            \* predict_wildfire_risk: the request being served
    req_pc,             \* predict_wildfire_risk: where it is suspended
    batch_i,            \* predict_wildfire_risk: the loop variable i
    tasks,              \* process_area_batch: the coroutines created so far
    completed,          \* the indices of the tasks, in their order of completion
    predictions,        \* predict_wildfire_risk: the list predictions
    response,           \* predict_wildfire_risk: what the request returned
    delays,             \* number of asyncio.sleep(0.1) between batches so far
    clients,            \* concurrent /predict requests: where each one is
    obs_input,          \* weather_service.py: the argument of an observation function
    observation,        \* weather_service.py: the dict or row it returned
    inference_input,    \* make_ensemble_prediction: the feature dict, the answers
    inference_result    \* make_ensemble_prediction: how it ended

wvars == <<now, last_request_time, cache, call, calls_started, ticks, net_starts>>
pvars == <<proba, prediction_result>>
fvars == <<feature_input, features>>
mvars == <<startup_load, model_loaded, predictor_models, trainings>>
rvars == <<request, req_pc, batch_i, tasks, completed, predictions, response,
           delays>>
bvars == <<mvars, rvars>>
svars == <<clients>>
ovars == <<obs_input, observation>>
ivars == <<inference_input, inference_result>>
vars == <<wvars, pvars, fvars, bvars, ovars, ivars, svars>>

NoEntry == [data |-> NoObs, time |-> 0]

IdleCall ==
    [pc |-> "idle", latitude |-> 0, longitude |-> 0, wake |-> 0,
     req_start |-> 0, outcome |-> "none", result |-> NoObs, net |-> 0]

InitWeatherVars ==
    /\ now = StartTime
    /\ last_request_time = 0
    /\ cache = [k \in {} |-> NoEntry]
    /\ call = [c \in Callers |-> IdleCall]
    /\ calls_started = 0
    /\ ticks = 0
    /\ net_starts = <<>>

\* CachePut that refreshes the observation of an existing entry and keeps
\* the insertion time it had
CachePut_keeps_time(key, data, t) ==
    [k \in DOMAIN cache \cup {key} |->
        IF k = key
        THEN [data |-> data,
              time |-> IF key \in DOMAIN cache THEN cache[key].time ELSE t]
        ELSE cache[k]]

\* self.cache[cache_key] = (processed_data, time.time())
CachePut(key, data, t) ==
    [k \in DOMAIN cache \cup {key} |->
        IF k = key THEN [data |-> data, time |-> t] ELSE cache[k]]

\* CacheFresh with the comparison turned round: young entries count as stale
CacheFresh_inverted(key, t) ==
    /\ key \in DOMAIN cache
    /\ t - cache[key].time > cache_duration

\* CacheFresh that still serves an entry exactly cache_duration old
CacheFresh_inclusive(key, t) ==
    /\ key \in DOMAIN cache
    /\ t - cache[key].time <= cache_duration

\* lines 25-27: the key is cached and the entry is younger than cache_duration
CacheFresh(key, t) ==
    /\ key \in DOMAIN cache
    /\ t - cache[key].time < cache_duration

\* lines 30-33: the wait the rate limiter asks for at time t, 0 for none
wait_time(t) ==
    IF t - last_request_time < min_request_interval
    THEN min_request_interval - (t - last_request_time)
    ELSE 0

CanStart(c) ==
    /\ call[c].pc \in {"idle", "returned"}
    /\ calls_started < MaxCalls

NewCall(latitude, longitude) ==
    [IdleCall EXCEPT !.latitude = latitude, !.longitude = longitude]

\* CacheHit that counts the hit as a request: it stamps last_request_time
CacheHit_stamps(c, latitude, longitude) ==
    /\ CanStart(c)
    /\ CacheFresh(cache_key(latitude, longitude), now)
    /\ call' = [call EXCEPT ![c] =
            [NewCall(latitude, longitude) EXCEPT
                !.pc = "returned",
                !.result = cache[cache_key(latitude, longitude)].data]]
    /\ calls_started' = calls_started + 1
    /\ last_request_time' = now
    /\ UNCHANGED <<now, cache, ticks, net_starts>>

\* get_current_weather, lines 22-28: cache hit, the cached data is returned
CacheHit(c, latitude, longitude) ==
    /\ CanStart(c)
    /\ CacheFresh(cache_key(latitude, longitude), now)
    /\ call' = [call EXCEPT ![c] =
            [NewCall(latitude, longitude) EXCEPT
                !.pc = "returned",
                !.result = cache[cache_key(latitude, longitude)].data]]
    /\ calls_started' = calls_started + 1
    /\ UNCHANGED <<now, last_request_time, cache, ticks, net_starts>>

\* get_current_weather, lines 22-35: cache miss, the rate limiter suspends
\* the caller in asyncio.sleep(wait_time)
RateLimitWait(c, latitude, longitude) ==
    /\ CanStart(c)
    /\ ~CacheFresh(cache_key(latitude, longitude), now)
    /\ wait_time(now) > 0
    /\ call' = [call EXCEPT ![c] =
            [NewCall(latitude, longitude) EXCEPT
                !.pc = "sleeping", !.wake = now + wait_time(now)]]
    /\ calls_started' = calls_started + 1
    /\ UNCHANGED <<now, last_request_time, cache, ticks, net_starts>>

\* get_current_weather, lines 22-33 and 63-65: cache miss, no wait, the
\* request is sent and the caller is suspended in client.get
SendRequest(c, latitude, longitude) ==
    /\ CanStart(c)
    /\ ~CacheFresh(cache_key(latitude, longitude), now)
    /\ wait_time(now) = 0
    /\ call' = [call EXCEPT ![c] =
            [NewCall(latitude, longitude) EXCEPT
                !.pc = "requesting", !.req_start = now, !.net = 1]]
    /\ calls_started' = calls_started + 1
    /\ net_starts' = Append(net_starts, now)
    /\ UNCHANGED <<now, last_request_time, cache, ticks>>

\* get_current_weather, lines 35 and 63-65: the sleep is over (asyncio wakes
\* the caller at its deadline or later); the request is sent without a
\* second look at the cache or at last_request_time
WakeAndSend(c) ==
    /\ call[c].pc = "sleeping"
    /\ now >= call[c].wake
    /\ call' = [call EXCEPT ![c].pc = "requesting", ![c].wake = 0,
                            ![c].req_start = now, ![c].net = 1]
    /\ net_starts' = Append(net_starts, now)
    /\ UNCHANGED <<now, last_request_time, cache, calls_started, ticks>>

\* Handled without the last clause, except Exception
Handled_http_only(exc) == exc = "HTTPStatusError"

\* lines 76-85: the except clauses.  HTTPStatusError has its own clause,
\* every other Exception the last one; all return the fallback observation
Handled(exc) ==
    \/ exc = "HTTPStatusError"
    \/ exc \in {"TransportError", "TimeoutException", "JSONDecodeError",
                "TypeError"}

\* get_current_weather, lines 65-85: the awaited request completes
Response(c, outcome) ==
    /\ call[c].pc = "requesting"
    /\ outcome = "timeout" => now - call[c].req_start >= request_timeout
    /\ last_request_time' = IF Received(outcome) THEN now
                            ELSE last_request_time
    /\ IF Raised(outcome) = "none"
       THEN LET data == _process_current_weather(Len(net_starts),
                            outcome = "missing_fields")
            IN /\ cache' = CachePut(cache_key(call[c].latitude, call[c].longitude),
                                    data, now)
               /\ call' = [call EXCEPT ![c].pc = "returned",
                                       ![c].req_start = 0,
                                       ![c].outcome = outcome,
                                       ![c].result = data]
       ELSE /\ UNCHANGED cache
            /\ IF Handled(Raised(outcome))
               THEN call' = [call EXCEPT ![c].pc = "returned",
                                ![c].req_start = 0,
                                ![c].outcome = outcome,
                                ![c].result = _get_fallback_weather_data(
                                    call[c].latitude, call[c].longitude)]
               ELSE call' = [call EXCEPT ![c].pc = "raised",
                                         ![c].req_start = 0,
                                         ![c].outcome = outcome]
    /\ UNCHANGED <<now, calls_started, ticks, net_starts>>

\* the wall clock advances
Tick(d) ==
    /\ ticks < MaxTicks
    /\ now' = now + d
    /\ ticks' = ticks + 1
    /\ UNCHANGED <<last_request_time, cache, call, calls_started, net_starts>>

WeatherStep ==
    \/ \E c \in Callers, xy \in Coords : CacheHit(c, xy[1], xy[2])
    \/ \E c \in Callers, xy \in Coords : RateLimitWait(c, xy[1], xy[2])
    \/ \E c \in Callers, xy \in Coords : SendRequest(c, xy[1], xy[2])
    \/ \E c \in Callers : WakeAndSend(c)
    \/ \E c \in Callers, o \in NetOutcomes : Response(c, o)
    \/ \E d \in TickSteps : Tick(d)

(***************************************************************************)
(* make_ensemble_prediction (production_api.py, lines 330-407).            *)
(***************************************************************************)
RiskClasses == 1..4

\* a predict_proba row: four class probabilities, multiples of 1/ProbGrid,
\* that sum to 1
Distributions ==
    { <<Q(a, ProbGrid), Q(b, ProbGrid), Q(c, ProbGrid),
        Q(ProbGrid - a - b - c, ProbGrid)>> :
        <<a, b, c>> \in { t \in (0..ProbGrid) \X (0..ProbGrid) \X (0..ProbGrid) :
                              t[1] + t[2] + t[3] <= ProbGrid } }

\* line 359: ensemble weights
xgb_weight == Q(7, 10)
rf_weight == Q(3, 10)

\* lines 362-365: class midpoints
class_midpoint == <<Q(125, 1000), Q(375, 1000), Q(625, 1000), Q(875, 1000)>>

\* ensemble that adds the two rows without the weights
ensemble_unweighted(xgb_proba, rf_proba) ==
    [i \in RiskClasses |-> QAdd(xgb_proba[i], rf_proba[i])]

\* line 359: ensemble_proba = 0.7 * xgb_proba + 0.3 * rf_proba
ensemble(xgb_proba, rf_proba) ==
    [i \in RiskClasses |->
        QAdd(QMul(xgb_weight, xgb_proba[i]), QMul(rf_weight, rf_proba[i]))]

\* lines 361-366: risk_score
score_of(ensemble_proba) ==
    QAdd(QAdd(QMul(ensemble_proba[1], class_midpoint[1]),
              QMul(ensemble_proba[2], class_midpoint[2])),
         QAdd(QMul(ensemble_proba[3], class_midpoint[3]),
              QMul(ensemble_proba[4], class_midpoint[4])))

\* line 369: np.max(ensemble_proba)
max_proba(ensemble_proba) ==
    QMax(QMax(ensemble_proba[1], ensemble_proba[2]),
         QMax(ensemble_proba[3], ensemble_proba[4]))

\* risk_level whose last branch answers "Extreme" for every percentage >= 80
risk_level_else_extreme(risk_percentage, confidence) ==
    IF QGt(risk_percentage, QInt(75)) /\ QGt(confidence, Q(75, 100))
    THEN "Extreme"
    ELSE IF QLt(risk_percentage, QInt(80))
         THEN IF QGe(risk_percentage, QInt(50)) THEN "High"
              ELSE IF QGe(risk_percentage, QInt(25)) THEN "Moderate"
              ELSE "Low"
         ELSE "Extreme"

\* risk_level without the last branch: percentages >= 80 that are not
\* Extreme keep the initial "Low"
risk_level_else_low(risk_percentage, confidence) ==
    IF QGt(risk_percentage, QInt(75)) /\ QGt(confidence, Q(75, 100))
    THEN "Extreme"
    ELSE IF QLt(risk_percentage, QInt(80))
         THEN IF QGe(risk_percentage, QInt(50)) THEN "High"
              ELSE IF QGe(risk_percentage, QInt(25)) THEN "Moderate"
              ELSE "Low"
         ELSE "Low"

\* lines 371-381: the categorical level, from the float percentage
\* (risk_score * 100, not yet truncated) and the confidence
risk_level(risk_percentage, confidence) ==
    IF QGt(risk_percentage, QInt(75)) /\ QGt(confidence, Q(75, 100))
    THEN "Extreme"
    ELSE IF QLt(risk_percentage, QInt(80))
         THEN IF QGe(risk_percentage, QInt(50)) THEN "High"
              ELSE IF QGe(risk_percentage, QInt(25)) THEN "Moderate"
              ELSE "Low"
         ELSE "High"

\* lines 356-407, from the two predict_proba rows on
make_ensemble_prediction(xgb_proba, rf_proba) ==
    LET ensemble_proba == ensemble(xgb_proba, rf_proba)
        risk_score == score_of(ensemble_proba)
        risk_percentage == QMul(risk_score, QInt(100))
        confidence == max_proba(ensemble_proba)
    IN [risk_level |-> risk_level(risk_percentage, confidence),
        risk_score |-> risk_score,
        risk_percentage |-> QTrunc(risk_percentage),
        confidence |-> confidence,
        all_probabilities |-> ensemble_proba]

NoProba == <<>>
NoResult ==
    [risk_level |-> "none", risk_score |-> QInt(0), risk_percentage |-> 0,
     confidence |-> QInt(0), all_probabilities |-> <<>>]

\* no inference asked for
IdlePredict ==
    /\ proba = NoProba
    /\ prediction_result = NoResult

\* the classifiers answer with any two distributions (lines 356-357)
InitPredictVars ==
    /\ proba \in Distributions \X Distributions
    /\ prediction_result = NoResult

\* one inference on the two rows
Predict ==
    /\ prediction_result = NoResult
    /\ prediction_result' = make_ensemble_prediction(proba[1], proba[2])
    /\ UNCHANGED proba

(***************************************************************************)
(* prepare_enhanced_features and its helpers (production_api.py, lines     *)
(* 239-328 and 409-582).  Area names are given in the normalised form      *)
(* name.lower().replace(' ', '_') that the registries are keyed by.        *)
(***************************************************************************)
\* dict.get(key, default)
Get(d, key, default) == IF key \in DOMAIN d THEN d[key] ELSE default

\* {**f, **g} and f.update(g): the later dict wins on a shared key
Merge(f, g) ==
    [k \in DOMAIN f \cup DOMAIN g |-> IF k \in DOMAIN g THEN g[k] ELSE f[k]]

\* lines 409-438
risk_map ==
    [paradise |-> 95, camp_fire_area |-> 95, tubbs_fire_area |-> 90,
     shasta_trinity |-> 85, mendocino_national_forest |-> 85,
     lassen_national_forest |-> 80, plumas_national_forest |-> 80,
     eldorado_national_forest |-> 85, stanislaus_national_forest |-> 80,
     sierra_national_forest |-> 75, sequoia_national_forest |-> 75,
     los_padres_national_forest |-> 80, ventana_wilderness |-> 85,
     angeles_national_forest |-> 85, san_bernardino_national_forest |-> 80,
     cleveland_national_forest |-> 75, grass_valley |-> 80, auburn |-> 75,
     oroville |-> 80, calistoga |-> 85, forestville |-> 85, altadena |->
     80, julian |-> 75, joshua_tree_area |-> 70, malibu |-> 85, topanga |->
     80, calabasas |-> 75, santa_rosa |-> 80, napa |-> 75, big_sur |-> 80,
     yosemite |-> 70, lake_tahoe |-> 65, redding |-> 85, chico |-> 75,
     riverside |-> 60, san_bernardino |-> 55, palm_springs |-> 50,
     sacramento |-> 45, fresno |-> 40, modesto |-> 35, stockton |-> 30,
     bakersfield |-> 35, los_angeles |-> 40, anaheim |-> 35, irvine |-> 30,
     huntington_beach |-> 25, escondido |-> 40, san_francisco |-> 25,
     oakland |-> 30, san_jose |-> 25, monterey |-> 30, santa_barbara |->
     35, san_diego |-> 30, santa_monica |-> 30, westwood |-> 35,
     beverly_hills |-> 30, brentwood |-> 35, hollywood |-> 35, downtown_la
     |-> 30, woodland_hills |-> 55, mojave_national_preserve |-> 40]

\* lines 440-448
elevation_map ==
    [paradise |-> 1800, malibu |-> 400, santa_rosa |-> 300, napa |-> 500,
     riverside |-> 250, sacramento |-> 50, fresno |-> 100, san_francisco
     |-> 100, san_diego |-> 20, los_angeles |-> 80, westwood |-> 100,
     beverly_hills |-> 150, santa_monica |-> 50, topanga |-> 300, calabasas
     |-> 250, woodland_hills |-> 180]

\* lines 450-458
veg_map ==
    [paradise |-> "forest", malibu |-> "chaparral", santa_rosa |->
     "grassland", napa |-> "mixed", riverside |-> "desert", sacramento |->
     "urban", fresno |-> "agricultural", san_francisco |-> "urban",
     san_diego |-> "urban", los_angeles |-> "urban", westwood |-> "urban",
     beverly_hills |-> "urban", santa_monica |-> "urban", topanga |->
     "chaparral", calabasas |-> "mixed", woodland_hills |-> "mixed"]

\* lines 460-468
slope_map ==
    [paradise |-> 25, malibu |-> 30, santa_rosa |-> 20, napa |-> 15,
     riverside |-> 10, sacramento |-> 3, fresno |-> 2, san_francisco |-> 8,
     san_diego |-> 5, los_angeles |-> 4, westwood |-> 5, beverly_hills |->
     8, santa_monica |-> 3, topanga |-> 35, calabasas |-> 18,
     woodland_hills |-> 12]

\* lines 470-478
aspect_map ==
    [paradise |-> "south", malibu |-> "south", santa_rosa |-> "southwest",
     napa |-> "west", riverside |-> "east", sacramento |-> "flat", fresno
     |-> "flat", san_francisco |-> "west", san_diego |-> "west",
     los_angeles |-> "flat", westwood |-> "flat", beverly_hills |->
     "south", santa_monica |-> "west", topanga |-> "southwest", calabasas
     |-> "south", woodland_hills |-> "east"]

\* lines 480-486
aspects ==
    [north |-> 0, northeast |-> 45, east |-> 90, southeast |-> 135, south
     |-> 180, southwest |-> 225, west |-> 270, northwest |-> 315, flat |->
     0]

\* lines 488-493
veg_risk ==
    [urban |-> 1, agricultural |-> 2, grassland |-> 3, mixed |-> 4, desert
     |-> 5, chaparral |-> 6, forest |-> 7]

\* lines 503-508
fuel_loads ==
    [forest |-> 8, chaparral |-> 7, grassland |-> 5, mixed |-> 6, desert
     |-> 3, agricultural |-> 2, urban |-> 1]

\* line 438 (risk_map holds hundredths)
get_base_risk_for_area(area_name) == Q(Get(risk_map, area_name, 50), 100)
\* line 448
get_elevation_for_area(area_name) == QInt(Get(elevation_map, area_name, 150))
\* line 458
get_vegetation_type(area_name) == Get(veg_map, area_name, "mixed")
\* line 468
get_slope_for_area(area_name) == QInt(Get(slope_map, area_name, 10))
\* line 478
get_aspect_for_area(area_name) == Get(aspect_map, area_name, "flat")
\* line 486
aspect_to_numeric(aspect) == QInt(Get(aspects, aspect, 0))
\* line 493
vegetation_to_numeric(veg) == QInt(Get(veg_risk, veg, 3))
\* line 508
get_fuel_load(veg_type) == QInt(Get(fuel_loads, veg_type, 5))

\* lines 495-501
calculate_days_since_rain(month) ==
    IF month \in {6, 7, 8, 9} THEN QInt(30)
    ELSE IF month \in {11, 12, 1, 2, 3} THEN QInt(5)
    ELSE QInt(15)

\* int(b) of a bool
BoolInt(b) == IF b THEN QInt(1) ELSE QInt(0)

\* datetime.now().month for a clock reading given as the day of a
\* non-leap year (tm_yday, 1..365)
month_of(yday) ==
    IF yday <= 31 THEN 1 ELSE IF yday <= 59 THEN 2 ELSE IF yday <= 90 THEN 3
    ELSE IF yday <= 120 THEN 4 ELSE IF yday <= 151 THEN 5
    ELSE IF yday <= 181 THEN 6 ELSE IF yday <= 212 THEN 7
    ELSE IF yday <= 243 THEN 8 ELSE IF yday <= 273 THEN 9
    ELSE IF yday <= 304 THEN 10 ELSE IF yday <= 334 THEN 11 ELSE 12

\* the day after: the clock read again past midnight
NextDay(yday) == IF yday = 365 THEN 1 ELSE yday + 1

\* lines 512-520, 525-533: the values returned when there is no incident,
\* or no active one
no_fire_features ==
    [distance_to_nearest_fire |-> QInt(200), fire_size_nearby |-> QInt(0),
     fire_containment_nearby |-> QInt(100), num_nearby_fires |-> QInt(0),
     total_fire_area |-> QInt(0), avg_fire_age_days |-> QInt(999),
     fire_threat_index |-> QInt(0)]

SeqRange(s) == { s[i] : i \in DOMAIN s }
MinOf(S) == CHOOSE x \in S : \A y \in S : QLe(x, y)
MaxOf(S) == CHOOSE x \in S : \A y \in S : QGe(x, y)

RECURSIVE SumAcres(_)
SumAcres(fires) ==
    IF fires = <<>> THEN QInt(0)
    ELSE QAdd(Head(fires).acres_burned, SumAcres(Tail(fires)))

\* lines 569-572: threat += s * (100 - c) / (d**2 + 1)
RECURSIVE ThreatSum(_)
ThreatSum(fires) ==
    IF fires = <<>> THEN QInt(0)
    ELSE QAdd(QDiv(QMul(Head(fires).acres_burned,
                        QSub(QInt(100), Head(fires).percent_contained)),
                   QAdd(QMul(Head(fires).distance, Head(fires).distance), QInt(1))),
              ThreatSum(Tail(fires)))

\* is_active read as true for every incident
IsActive_always(fire) == TRUE
\* line 522: f.get('is_active', False)
IsActive(fire) == fire.is_active
\* the 50 km test passed by every incident
IsNearby_always(fire) == TRUE
\* line 554: d <= 50
IsNearby(fire) == QLe(fire.distance, QInt(50))

\* lines 510-582.  An incident carries `distance`, the haversine distance
\* in km from the area's center that lines 540-548 compute for it.
generate_fire_proximity_features(area_dict, fire_incidents, is_fire_season) ==
    LET active_fires == SelectSeq(fire_incidents, IsActive)
        nearby_fires == SelectSeq(active_fires, IsNearby)
    IN IF fire_incidents = <<>> THEN no_fire_features
       ELSE IF active_fires = <<>> THEN no_fire_features
       ELSE IF nearby_fires = <<>>
       THEN [distance_to_nearest_fire |->
                 MinOf({ f.distance : f \in SeqRange(active_fires) }),
             fire_size_nearby |-> QInt(0),
             fire_containment_nearby |-> QInt(100),
             num_nearby_fires |-> QInt(0),
             total_fire_area |-> QInt(0),
             avg_fire_age_days |-> QInt(999),
             fire_threat_index |-> QInt(0)]
       ELSE [distance_to_nearest_fire |->
                 MinOf({ f.distance : f \in SeqRange(nearby_fires) }),
             fire_size_nearby |->
                 MaxOf({ f.acres_burned : f \in SeqRange(nearby_fires) }),
             fire_containment_nearby |->
                 MinOf({ f.percent_contained : f \in SeqRange(nearby_fires) }),
             num_nearby_fires |-> QInt(Len(nearby_fires)),
             total_fire_area |-> SumAcres(nearby_fires),
             avg_fire_age_days |-> QInt(5),
             fire_threat_index |->
                 QMin(QInt(100), QDiv(ThreatSum(nearby_fires), QInt(1000)))]

\* lines 241-250
area_dict_of(area) ==
    [name |-> area.name,
     lat |-> area.center.latitude,
     lon |-> area.center.longitude,
     base_risk |-> get_base_risk_for_area(area.name),
     elevation |-> get_elevation_for_area(area.name),
     veg |-> get_vegetation_type(area.name),
     slope |-> get_slope_for_area(area.name),
     aspect |-> get_aspect_for_area(area.name)]

\* lines 258-265
enhanced_weather_of(weather_data) ==
    [temperature_f |-> Get(weather_data, "temperature_f", QInt(75)),
     temperature_c |-> Get(weather_data, "temperature_c", QInt(24)),
     humidity |-> Get(weather_data, "humidity", QInt(50)),
     wind_speed_mph |-> Get(weather_data, "wind_speed_mph", QInt(10)),
     vapor_pressure_deficit |-> Get(weather_data, "vapor_pressure_deficit", QInt(1)),
     heat_index |-> Get(weather_data, "heat_index", QInt(75))]

\* lines 269-278
terrain_features_of(area_dict) ==
    [elevation |-> area_dict.elevation,
     slope |-> area_dict.slope,
     aspect_numeric |-> aspect_to_numeric(area_dict.aspect),
     vegetation_type_numeric |-> vegetation_to_numeric(area_dict.veg),
     topographic_position |-> QDiv(area_dict.elevation, QInt(100)),
     distance_to_coast |->
         LET x == QAdd(area_dict.lon, QInt(120))
         IN QMul(Q(Abs(x.n), x.d), QInt(111)),
     distance_to_urban |-> IF area_dict.veg = "urban" THEN QInt(50) ELSE QInt(25),
     road_density |-> IF area_dict.veg = "urban" THEN QInt(10) ELSE QInt(2)]

\* lines 254-256 and 280-288.  month is read from the clock at line 254,
\* day_of_year from a second reading of the clock at line 282.
temporal_features_of(month, day_of_year) ==
    LET is_fire_season == month \in {5, 6, 7, 8, 9, 10}
        is_peak_season == month \in {7, 8, 9}
    IN [month |-> QInt(month),
        day_of_year |-> QInt(day_of_year),
        is_fire_season |-> BoolInt(is_fire_season),
        is_peak_season |-> BoolInt(is_peak_season),
        is_shoulder_season |-> BoolInt(month \in {5, 6, 10}),
        days_since_rain |-> calculate_days_since_rain(month),
        fire_season_progress |->
            IF is_fire_season THEN Q(month - 5, 6) ELSE QInt(0)]

\* lines 290-297
advanced_features_of(area_dict, enhanced_weather, temporal_features) ==
    [years_since_last_major_fire |-> QInt(5),
     fire_return_interval |->
         IF QGt(area_dict.base_risk, Q(7, 10)) THEN QInt(20) ELSE QInt(50),
     suppression_difficulty |->
         QDiv(QAdd(area_dict.slope, enhanced_weather.wind_speed_mph), QInt(10)),
     evacuation_time_estimate |->
         IF area_dict.veg = "urban" THEN QInt(30) ELSE QInt(120),
     fuel_load_index |->
         QAdd(get_fuel_load(area_dict.veg),
              QDiv(temporal_features.days_since_rain, QInt(30))),
     ignition_risk_sources |-> IF area_dict.veg = "urban" THEN QInt(5) ELSE QInt(2)]

\* lines 299-304
weather_indices_of(w) ==
    [haines_index |->
         QMin(QInt(6), QAdd(QDiv(QSub(w.temperature_f, QInt(32)), QInt(20)),
                            QDiv(w.wind_speed_mph, QInt(10)))),
     burning_index |->
         QMin(QInt(100), QDiv(QMul(w.temperature_f, QSub(QInt(100), w.humidity)),
                              QInt(100))),
     energy_release_component |->
         QMin(QInt(100), QDiv(QMul(w.temperature_f, w.wind_speed_mph), QInt(10))),
     spread_component |->
         QMin(QInt(100), QDiv(QMul(w.wind_speed_mph, QSub(QInt(100), w.humidity)),
                              QInt(100)))]

\* (temperature_f - 32) * (100 - humidity) * wind_speed_mph / 10000
weather_stress(f) ==
    QDiv(QMul(QMul(QSub(f.temperature_f, QInt(32)), QSub(QInt(100), f.humidity)),
              f.wind_speed_mph),
         QInt(10000))

\* interaction_features_of with the ratio taken over the bare distance
interaction_features_bare_distance(f) ==
    [temp_humidity_interaction |->
         QDiv(QMul(f.temperature_f, QSub(QInt(100), f.humidity)), QInt(100)),
     temp_wind_interaction |->
         QDiv(QMul(f.temperature_f, f.wind_speed_mph), QInt(100)),
     humidity_wind_interaction |->
         QDiv(QMul(QSub(QInt(100), f.humidity), f.wind_speed_mph), QInt(100)),
     weather_stress_index |-> weather_stress(f),
     fire_size_distance_ratio |->
         QDiv(f.fire_size_nearby, f.distance_to_nearest_fire),
     fire_containment_urgency |->
         QDiv(QMul(QSub(QInt(100), f.fire_containment_nearby), f.fire_size_nearby),
              QInt(100)),
     slope_wind_interaction |-> QDiv(QMul(f.slope, f.wind_speed_mph), QInt(100)),
     elevation_temp_interaction |->
         QDiv(QMul(f.elevation, f.temperature_f), QInt(1000)),
     season_weather_risk |-> QMul(f.is_fire_season, weather_stress(f)),
     peak_season_multiplier |->
         QDiv(QMul(f.is_peak_season, QAdd(f.temperature_f, f.wind_speed_mph)),
              QInt(100))]

\* lines 315-326: the interaction terms, from the features merged so far
interaction_features_of(f) ==
    [temp_humidity_interaction |->
         QDiv(QMul(f.temperature_f, QSub(QInt(100), f.humidity)), QInt(100)),
     temp_wind_interaction |->
         QDiv(QMul(f.temperature_f, f.wind_speed_mph), QInt(100)),
     humidity_wind_interaction |->
         QDiv(QMul(QSub(QInt(100), f.humidity), f.wind_speed_mph), QInt(100)),
     weather_stress_index |-> weather_stress(f),
     fire_size_distance_ratio |->
         QDiv(f.fire_size_nearby, QAdd(f.distance_to_nearest_fire, QInt(1))),
     fire_containment_urgency |->
         QDiv(QMul(QSub(QInt(100), f.fire_containment_nearby), f.fire_size_nearby),
              QInt(100)),
     slope_wind_interaction |-> QDiv(QMul(f.slope, f.wind_speed_mph), QInt(100)),
     elevation_temp_interaction |->
         QDiv(QMul(f.elevation, f.temperature_f), QInt(1000)),
     season_weather_risk |-> QMul(f.is_fire_season, weather_stress(f)),
     peak_season_multiplier |->
         QDiv(QMul(f.is_peak_season, QAdd(f.temperature_f, f.wind_speed_mph)),
              QInt(100))]

\* lines 239-328.  first_now and second_now are the two readings of
\* datetime.now() (lines 254 and 282), as days of the year.
prepare_enhanced_features(area, weather_data, fire_incidents, first_now, second_now) ==
    LET area_dict == area_dict_of(area)
        month == month_of(first_now)
        is_fire_season == month \in {5, 6, 7, 8, 9, 10}
        enhanced_weather == enhanced_weather_of(weather_data)
        fire_features ==
            generate_fire_proximity_features(area_dict, fire_incidents, is_fire_season)
        terrain_features == terrain_features_of(area_dict)
        temporal_features == temporal_features_of(month, second_now)
        advanced_features ==
            advanced_features_of(area_dict, enhanced_weather, temporal_features)
        weather_indices == weather_indices_of(enhanced_weather)
        all_features ==
            Merge(Merge(Merge(Merge(Merge(enhanced_weather, fire_features),
                                    terrain_features),
                              temporal_features),
                        advanced_features),
                  weather_indices)
    IN Merge(all_features, interaction_features_of(all_features))

\* lines 334-346
expected_features ==
    << "temperature_f", "temperature_c", "humidity", "wind_speed_mph",
       "vapor_pressure_deficit", "heat_index",
       "distance_to_nearest_fire", "fire_size_nearby", "fire_containment_nearby",
       "num_nearby_fires",
       "total_fire_area", "avg_fire_age_days", "fire_threat_index", "elevation",
       "slope", "aspect_numeric",
       "vegetation_type_numeric", "topographic_position", "distance_to_coast",
       "distance_to_urban",
       "road_density", "month", "day_of_year", "is_fire_season", "is_peak_season",
       "is_shoulder_season",
       "days_since_rain", "fire_season_progress", "years_since_last_major_fire",
       "fire_return_interval",
       "suppression_difficulty", "evacuation_time_estimate", "fuel_load_index",
       "ignition_risk_sources",
       "haines_index", "burning_index", "energy_release_component",
       "spread_component",
       "temp_humidity_interaction", "temp_wind_interaction",
       "humidity_wind_interaction", "weather_stress_index",
       "fire_size_distance_ratio", "fire_containment_urgency",
       "slope_wind_interaction",
       "elevation_temp_interaction", "season_weather_risk",
       "peak_season_multiplier" >>

(***************************************************************************)
(* Inputs of one feature build.                                            *)
(***************************************************************************)
\* areas (GeographicArea, lines 35-40): two with registry entries, one
\* without (the registry defaults apply)
AreaSamples ==
    { [name |-> "malibu", display_name |-> "Malibu",
       center |-> [latitude |-> Q(3403, 100), longitude |-> Q(-11878, 100)]],
      [name |-> "sacramento", display_name |-> "Sacramento",
       center |-> [latitude |-> Q(3858, 100), longitude |-> Q(-12149, 100)]],
      [name |-> "elsewhere", display_name |-> "Elsewhere",
       center |-> [latitude |-> Q(3395, 100), longitude |-> Q(-11740, 100)]] }

\* a processed observation: 95 F, 9 %, 31.1 mph, red flag (weather_service.py,
\* lines 122-152 and 220-226)
observed_weather ==
    [temperature_f |-> QInt(95), temperature_c |-> QInt(35),
     humidity |-> QInt(9), wind_speed_mph |-> Q(311, 10),
     red_flag_warning |-> TRUE]

\* the fallback observation of a summer month inland (weather_service.py,
\* lines 228-269)
fallback_weather ==
    [temperature_f |-> QInt(95), temperature_c |-> QInt(35),
     humidity |-> QInt(20), wind_speed_mph |-> QInt(15),
     red_flag_warning |-> TRUE, data_source |-> "fallback_estimates"]

\* lines 194-202: the dict process_single_area substitutes when the call
\* of get_current_weather raises
default_weather_data ==
    [temperature_f |-> QInt(75), temperature_c |-> QInt(24),
     humidity |-> QInt(50), wind_speed_mph |-> QInt(10),
     vapor_pressure_deficit |-> QInt(1), heat_index |-> QInt(75),
     red_flag_warning |-> FALSE]

\* weather_data: the three above, and a dict with every field missing
WeatherSamples ==
    { observed_weather, fallback_weather, default_weather_data,
      [unused |-> QInt(0)] }

\* incidents, by their distance from the area: at its center, 3 km away,
\* exactly 50 km away, beyond 50 km, and an inactive one nearby
IncidentSamples ==
    { [name |-> "center", distance |-> QInt(0), acres_burned |-> QInt(200),
       percent_contained |-> QInt(100), is_active |-> TRUE],
      [name |-> "near", distance |-> QInt(3), acres_burned |-> QInt(6000),
       percent_contained |-> QInt(0), is_active |-> TRUE],
      [name |-> "edge", distance |-> QInt(50), acres_burned |-> Q(2501, 2),
       percent_contained |-> QInt(50), is_active |-> TRUE],
      [name |-> "far", distance |-> QInt(120), acres_burned |-> QInt(8000),
       percent_contained |-> QInt(0), is_active |-> TRUE],
      [name |-> "out", distance |-> QInt(3), acres_burned |-> QInt(900),
       percent_contained |-> QInt(100), is_active |-> FALSE] }

IncidentLists ==
    UNION { [1..n -> IncidentSamples] : n \in 0..MaxIncidents }

\* clock readings: days of the year at month ends and starts, and mid-month
DaySamples == {1, 31, 59, 135, 212, 304, 365}

NoFeatures == [none |-> QInt(0)]
NoInput == <<>>

\* no feature build asked for
IdleFeatures ==
    /\ feature_input = NoInput
    /\ features = NoFeatures

\* the arguments of a build, and the two clock readings: the second is the
\* same day, or the next one when midnight passes between lines 254 and 282
InitFeatureVars ==
    /\ feature_input \in
          { [area |-> a, weather_data |-> w, fire_incidents |-> fi,
             first_now |-> d1, second_now |-> d2] :
               <<a, w, fi, d1, d2>> \in
                  { t \in AreaSamples \X WeatherSamples \X IncidentLists
                            \X DaySamples \X (1..365) :
                        t[5] \in {t[4], NextDay(t[4])} } }
    /\ features = NoFeatures

\* await prepare_enhanced_features(area, weather_data, fire_incidents)
BuildFeatures ==
    /\ features = NoFeatures
    /\ features' = prepare_enhanced_features(
                       feature_input.area, feature_input.weather_data,
                       feature_input.fire_incidents,
                       feature_input.first_now, feature_input.second_now)
    /\ UNCHANGED feature_input

(***************************************************************************)
(* The /predict request: predict_wildfire_risk, process_area_batch and     *)
(* process_single_area (production_api.py, lines 126-237).                 *)
(***************************************************************************)
\* an area whose center dict has no "latitude" key (center: Dict[str, float],
\* line 38)
area_without_latitude ==
    [name |-> "paradise", display_name |-> "Paradise",
     center |-> [longitude |-> Q(-12162, 100)]]

RequestAreas == AreaSamples \cup {area_without_latitude}

\* area.center["latitude"] and area.center["longitude"] do not raise KeyError
CenterOk(area) == {"latitude", "longitude"} \subseteq DOMAIN area.center

\* the incidents of the request: one active fire 3 km from every area
request_incidents ==
    << [name |-> "near", distance |-> QInt(3), acres_burned |-> QInt(5000),
        percent_contained |-> QInt(10), is_active |-> TRUE] >>

\* the day the request is served (Jul 31)
RequestDays == {212}

\* what the two classifiers answer for a scaled vector (lines 356-357):
\* all mass on class 4, or on class 1
ModelAnswers ==
    { [xgb_proba |-> <<QInt(0), QInt(0), QInt(0), QInt(1)>>,
       rf_proba |-> <<QInt(0), QInt(0), QInt(0), QInt(1)>>],
      [xgb_proba |-> <<QInt(1), QInt(0), QInt(0), QInt(0)>>,
       rf_proba |-> <<QInt(1), QInt(0), QInt(0), QInt(0)>>] }

\* lines 632-647: which of the five sentences is formatted
format_weather_impact(weather_data) ==
    LET temp_f == Get(weather_data, "temperature_f", QInt(75))
        humidity == Get(weather_data, "humidity", QInt(50))
        wind_mph == Get(weather_data, "wind_speed_mph", QInt(10))
        red_flag == Get(weather_data, "red_flag_warning", FALSE)
    IN IF red_flag THEN "RED FLAG WARNING"
       ELSE IF QGe(temp_f, QInt(95)) /\ QLe(humidity, QInt(20))
       THEN "Critical fire weather"
       ELSE IF QGe(temp_f, QInt(85)) /\ QLe(humidity, QInt(30))
       THEN "High fire danger"
       ELSE IF QGe(wind_mph, QInt(25)) THEN "Windy conditions"
       ELSE "Moderate conditions"

\* create_default_prediction answering level High
create_default_prediction_high(area_name) ==
    [area_name |-> area_name,
     risk_level |-> "High",
     risk_score |-> Q(1, 2),
     risk_percentage |-> 50,
     confidence |-> Q(1, 2),
     weather_impact |-> "Unable to fetch current weather data"]

\* lines 659-671
create_default_prediction(area_name) ==
    [area_name |-> area_name,
     risk_level |-> "Moderate",
     risk_score |-> Q(1, 2),
     risk_percentage |-> 50,
     confidence |-> Q(1, 2),
     weather_impact |-> "Unable to fetch current weather data"]

\* lines 220-233
EnhancedRiskPrediction(area, result, weather_data) ==
    [area_name |-> area.display_name,
     risk_level |-> result.risk_level,
     risk_score |-> result.risk_score,
     risk_percentage |-> result.risk_percentage,
     confidence |-> result.confidence,
     weather_impact |-> format_weather_impact(weather_data)]

NoPrediction == [area_name |-> "none"]

\* NewTask of a pipeline that goes to the inference at once
NewTask_skips_weather(area) ==
    [area |-> area, pc |-> "inference", weather |-> "none",
     weather_data |-> NoInput, features |-> NoFeatures,
     answer |-> NoInput, failed |-> "none", result |-> NoPrediction]

\* lines 169-171: the coroutine of one area, not yet run
NewTask(area) ==
    [area |-> area, pc |-> "weather", weather |-> "none",
     weather_data |-> NoInput, features |-> NoFeatures,
     answer |-> NoInput, failed |-> "none", result |-> NoPrediction]

\* lines 187-202: the weather_data process_single_area goes on with.
\* Evaluating area.center["latitude"] raises KeyError inside the inner try;
\* get_current_weather itself returns a processed or a fallback observation.
weather_data_of(area, outcome) ==
    IF ~CenterOk(area) THEN default_weather_data
    ELSE IF outcome = "open_meteo" THEN observed_weather
    ELSE fallback_weather

\* results of gather taken in the order the tasks completed
gather_as_completed(all_tasks, first, last, order) ==
    LET batch_order == SelectSeq(order, LAMBDA k : k >= first /\ k <= last)
    IN [k \in 1..(last - first + 1) |-> all_tasks[batch_order[k]].result]

\* line 173: asyncio.gather returns the results in the order of the
\* awaitables passed, whatever order they completed in
gather(all_tasks, first, last, order) ==
    [k \in 1..(last - first + 1) |-> all_tasks[first + k - 1].result]

\* lines 175-183
assemble(batch, results) ==
    [k \in 1..Len(results) |->
        IF results[k] = NoPrediction
        THEN create_default_prediction(batch[k].display_name)
        ELSE results[k]]

Min(a, b) == IF a <= b THEN a ELSE b

NoResponse == [status |-> 0]

\* predictor.models and predictor.scalers: the empty dicts of __init__
\* (enhanced_model.py, lines 15-16), the bundle loaded from the files
\* (lines 87-88), or the result of the n-th training (lines 592-594)
NoBundle == [origin |-> "none", version |-> 0]
FileBundle == [origin |-> "file", version |-> 0]
TrainedBundle(n) == [origin |-> "trained", version |-> n]

\* the service after a startup that loaded the bundle
IdleModel ==
    /\ startup_load = "loaded"
    /\ model_loaded = TRUE
    /\ predictor_models = FileBundle
    /\ trainings = 0

\* no request being served
IdleBatch ==
    /\ request = NoInput
    /\ req_pc = "idle"
    /\ batch_i = 0
    /\ tasks = <<>>
    /\ completed = <<>>
    /\ predictions = <<>>
    /\ response = NoResponse
    /\ delays = 0

\* the lists of 0..MaxAreas distinct areas
AreaLists ==
    { a \in UNION { [1..n -> RequestAreas] : n \in 0..MaxAreas } :
         \A i, j \in DOMAIN a : a[i] = a[j] => i = j }

\* lines 86-101: the bundle is loaded, or it is not (a file of it is
\* missing, line 96, or loading raises another exception, line 99)
StartupOutcomes == {"loaded", "not_loaded"}

\* startup_event (lines 82-101) did or did not load the model
InitModel ==
    /\ startup_load \in StartupOutcomes
    /\ model_loaded = (startup_load = "loaded")
    /\ predictor_models = IF startup_load = "loaded" THEN FileBundle
                          ELSE NoBundle
    /\ trainings = 0

\* train_model_if_needed that does not set model_loaded when it is done
train_model_keeps_flag ==
    IF model_loaded
    THEN UNCHANGED <<model_loaded, predictor_models, trainings>>
    ELSE /\ predictor_models' = TrainedBundle(trainings + 1)
         /\ trainings' = trainings + 1
         /\ UNCHANGED model_loaded

\* train_model_if_needed (lines 584-605): nothing when the model is loaded;
\* otherwise the predictor is trained, its models and scalers are replaced
\* and dumped, and model_loaded is set.  The function has no await: it runs
\* from its first line to its last without a suspension.
train_model_if_needed ==
    IF model_loaded
    THEN UNCHANGED <<model_loaded, predictor_models, trainings>>
    ELSE /\ predictor_models' = TrainedBundle(trainings + 1)
         /\ trainings' = trainings + 1
         /\ model_loaded' = TRUE

\* a request arrives at a service whose startup_event did or did not load
\* the model
InitBatchVars ==
    /\ InitModel
    /\ request \in
          { [areas |-> a, fire_incidents |-> request_incidents] :
               a \in AreaLists }
    /\ req_pc = "entered"
    /\ batch_i = 0
    /\ tasks = <<>>
    /\ completed = <<>>
    /\ predictions = <<>>
    /\ response = NoResponse
    /\ delays = 0

\* lines 128-136: train_model_if_needed (lines 584-605) when the model is
\* not loaded, then the empty predictions list
EnterPredict ==
    /\ req_pc = "entered"
    /\ IF ~model_loaded
       THEN train_model_if_needed
       ELSE UNCHANGED <<model_loaded, predictor_models, trainings>>
    /\ predictions' = <<>>
    /\ batch_i' = 0
    /\ req_pc' = "loop"
    /\ UNCHANGED <<startup_load, request, tasks, completed, response, delays>>

\* lines 137-140 and 168-173: the next slice of at most batch_size areas,
\* one coroutine per area, all handed to gather
StartBatch ==
    /\ req_pc = "loop"
    /\ batch_i < Len(request.areas)
    /\ LET batch == SubSeq(request.areas, batch_i + 1,
                           Min(batch_i + batch_size, Len(request.areas)))
       IN tasks' = tasks \o [k \in 1..Len(batch) |-> NewTask(batch[k])]
    /\ req_pc' = "gather"
    /\ UNCHANGED <<mvars, request, batch_i, completed, predictions, response,
                   delays>>

\* lines 187-212: the weather call returns (or the evaluation of its
\* arguments raises); the features are built without suspending, and the
\* inference is handed to the executor.  A failure of the feature build is
\* caught at line 235.
WeatherReturns(k, outcome, first_now, second_now, fault) ==
    /\ req_pc = "gather"
    /\ k \in DOMAIN tasks
    /\ tasks[k].pc = "weather"
    /\ LET area == tasks[k].area
           weather_data == weather_data_of(area, outcome)
           seen == IF CenterOk(area) THEN outcome ELSE "call_raised"
       IN IF ~CenterOk(area) \/ fault
          THEN /\ tasks' = [tasks EXCEPT ![k] =
                               [@ EXCEPT !.pc = "done", !.weather = seen,
                                         !.weather_data = weather_data,
                                         !.failed = "features",
                                         !.result =
                                             create_default_prediction(area.display_name)]]
               /\ completed' = Append(completed, k)
          ELSE /\ tasks' = [tasks EXCEPT ![k] =
                               [@ EXCEPT !.pc = "inference", !.weather = seen,
                                         !.weather_data = weather_data,
                                         !.features =
                                             prepare_enhanced_features(
                                                 area, weather_data,
                                                 request.fire_incidents,
                                                 first_now, second_now)]]
               /\ UNCHANGED completed
    /\ UNCHANGED <<mvars, request, req_pc, batch_i, predictions, response,
                   delays>>

\* InExecutor of an inference that runs on the event loop, where it waits
\* for the pending fetches
InExecutor_on_loop(k) ==
    /\ tasks[k].pc = "inference"
    /\ \A j \in DOMAIN tasks : tasks[j].pc # "weather"

\* lines 206-212: make_ensemble_prediction of task k has been handed to a
\* ThreadPoolExecutor and runs in its thread, whatever the event loop does
InExecutor(k) == tasks[k].pc = "inference"

\* lines 208-237: the executor's answer arrives and the prediction is
\* built, or the inference raised and line 237 substitutes the default
InferenceReturns(k, answer, fault) ==
    /\ req_pc = "gather"
    /\ k \in DOMAIN tasks
    /\ InExecutor(k)
    /\ DOMAIN tasks[k].features = SeqRange(expected_features)
    /\ LET area == tasks[k].area
       IN IF fault
          THEN tasks' = [tasks EXCEPT ![k] =
                            [@ EXCEPT !.pc = "done", !.failed = "inference",
                                      !.features = NoFeatures,
                                      !.result =
                                          create_default_prediction(area.display_name)]]
          ELSE tasks' = [tasks EXCEPT ![k] =
                            [@ EXCEPT !.pc = "done", !.answer = answer,
                                      !.features = NoFeatures,
                                      !.result =
                                          EnhancedRiskPrediction(
                                              area,
                                              make_ensemble_prediction(
                                                  answer.xgb_proba, answer.rf_proba),
                                              tasks[k].weather_data)]]
    /\ completed' = Append(completed, k)
    /\ UNCHANGED <<mvars, request, req_pc, batch_i, predictions, response,
                   delays>>

\* the pacing test with <= : a delay after the last batch too
PacingNeeded_inclusive(i, n) == i + batch_size <= n

\* line 143: if i + batch_size < len(request.areas)
PacingNeeded(i, n) == i + batch_size < n

\* lines 173-183 and 140-144: gather returns once every task of the batch
\* is done; the batch's predictions are appended, and the loop sleeps
\* before the next batch when there is one
BatchGathered ==
    /\ req_pc = "gather"
    /\ \A k \in DOMAIN tasks : tasks[k].pc = "done"
    /\ LET last == Len(tasks)
           batch == SubSeq(request.areas, batch_i + 1, last)
           results == gather(tasks, batch_i + 1, last, completed)
       IN predictions' = predictions \o assemble(batch, results)
    /\ IF PacingNeeded(batch_i, Len(request.areas))
       THEN req_pc' = "sleep" /\ delays' = delays + 1
       ELSE req_pc' = "loop" /\ UNCHANGED delays
    /\ batch_i' = batch_i + batch_size
    /\ UNCHANGED <<mvars, request, tasks, completed, response>>

\* line 144: await asyncio.sleep(0.1) is over
PacingOver ==
    /\ req_pc = "sleep"
    /\ req_pc' = "loop"
    /\ UNCHANGED <<mvars, request, batch_i, tasks, completed, predictions,
                   response, delays>>

\* lines 146-159: the loop is over, the response is returned
ReturnResponse ==
    /\ req_pc = "loop"
    /\ batch_i >= Len(request.areas)
    /\ response' = [status |-> 200, predictions |-> predictions]
    /\ req_pc' = "returned"
    /\ UNCHANGED <<mvars, request, batch_i, tasks, completed, predictions,
                   delays>>

BatchStep ==
    \/ EnterPredict
    \/ StartBatch
    \/ \E k \in 1..MaxAreas, outcome \in {"open_meteo", "fallback_estimates"},
          first_now \in RequestDays, fault \in BOOLEAN :
          \E second_now \in {first_now, NextDay(first_now)} :
             WeatherReturns(k, outcome, first_now, second_now, fault)
    \/ \E k \in 1..MaxAreas, answer \in ModelAnswers, fault \in BOOLEAN :
          InferenceReturns(k, answer, fault)
    \/ BatchGathered
    \/ PacingOver
    \/ ReturnResponse

(***************************************************************************)
(* The observation dicts of weather_service.py in full:                    *)
(* _process_current_weather (lines 122-152), one row of                    *)
(* _process_historical_weather (lines 154-184), _get_fallback_weather_data *)
(* (lines 228-269) and the formulas they share (lines 186-226).            *)
(***************************************************************************)
\* lines 194-195
celsius_to_fahrenheit(celsius) ==
    QAdd(QDiv(QMul(celsius, QInt(9)), QInt(5)), QInt(32))

\* lines 197-198
kmh_to_mph(kmh) == QMul(kmh, Q(621371, 1000000))

\* lines 200-205
calculate_drought_code(temp_f, humidity, precipitation) ==
    LET base_drought == QMax(QInt(0), QDiv(QSub(temp_f, QInt(32)), QInt(100)))
        humidity_factor == QMax(QInt(0), QDiv(QSub(QInt(100), humidity), QInt(100)))
        precip_factor == QMax(QInt(0), QSub(QInt(1), QDiv(precipitation, QInt(10))))
    IN QMin(QInt(100),
            QMul(QAdd(QAdd(base_drought, humidity_factor), precip_factor),
                 Q(3333, 100)))

\* a non-negative value cut to two decimals
Hundredths(x) ==
    Q((x.n \div x.d) * 100 + ((x.n % x.d) * 100) \div x.d, 100)

\* lines 207-218.  The index is a product of four factors; its operands
\* are carried to two decimals, which keeps the numerators of the exact
\* fractions within 32-bit integers.
calculate_fire_weather_index(temp_f, humidity, wind_mph, drought_code) ==
    LET ffmc == QMax(QInt(0),
                     QMin(QInt(100),
                          QAdd(QSub(QInt(100), humidity),
                               QMul(QSub(temp_f, QInt(32)), Q(1, 2)))))
        dmc == Hundredths(drought_code)
        isi == QMax(QInt(0),
                    Hundredths(QMul(QMul(Hundredths(ffmc), Hundredths(wind_mph)),
                                    Q(5, 100))))
        bui == QMax(QInt(0),
                    Hundredths(QMul(QAdd(dmc, Hundredths(drought_code)), Q(1, 2))))
    IN QMax(QInt(0), QMin(QInt(100), QMul(QMul(isi, bui), Q(1, 100))))

\* _check_red_flag_conditions with the thresholds taken exclusive
check_red_flag_conditions_strict(temp_f, humidity, wind_mph) ==
    LET high_temp == QGt(temp_f, QInt(85))
        low_humidity == QLt(humidity, QInt(20))
        high_wind == QGt(wind_mph, QInt(25))
    IN \/ high_temp /\ low_humidity
       \/ high_temp /\ high_wind
       \/ low_humidity /\ high_wind

\* lines 220-226: sum([high_temp, low_humidity, high_wind]) >= 2
check_red_flag_conditions(temp_f, humidity, wind_mph) ==
    LET high_temp == QGe(temp_f, QInt(85))
        low_humidity == QLe(humidity, QInt(20))
        high_wind == QGe(wind_mph, QInt(25))
        conditions_met == (IF high_temp THEN 1 ELSE 0)
                          + (IF low_humidity THEN 1 ELSE 0)
                          + (IF high_wind THEN 1 ELSE 0)
    IN conditions_met >= 2

\* max(xs[:24]) and min(xs[:24]) of a non-empty list
MaxOfFirst24(xs) == MaxOf(SeqRange(SubSeq(xs, 1, Min(24, Len(xs)))))
MinOfFirst24(xs) == MinOf(SeqRange(SubSeq(xs, 1, Min(24, Len(xs)))))

\* lines 186-192: a missing or empty list gives the default
process_forecast(hourly) ==
    [next_24h_max_temp |->
         IF Get(hourly, "temperature_2m", <<>>) # <<>>
         THEN MaxOfFirst24(hourly.temperature_2m) ELSE QInt(20),
     next_24h_min_humidity |->
         IF Get(hourly, "relative_humidity_2m", <<>>) # <<>>
         THEN MinOfFirst24(hourly.relative_humidity_2m) ELSE QInt(50),
     next_24h_max_wind |->
         IF Get(hourly, "wind_speed_10m", <<>>) # <<>>
         THEN MaxOfFirst24(hourly.wind_speed_10m) ELSE QInt(0),
     precipitation_probability |->
         IF Get(hourly, "precipitation_probability", <<>>) # <<>>
         THEN MaxOfFirst24(hourly.precipitation_probability) ELSE QInt(0)]

\* lines 122-152, in full: data is the decoded payload
process_current_weather(data) ==
    LET current == Get(data, "current", <<>>)
        hourly == Get(data, "hourly", <<>>)
        temp_f == celsius_to_fahrenheit(Get(current, "temperature_2m", QInt(20)))
        humidity == Get(current, "relative_humidity_2m", QInt(50))
        wind_speed_mph == kmh_to_mph(Get(current, "wind_speed_10m", QInt(0)))
        precipitation == Get(current, "precipitation", QInt(0))
        drought_code == calculate_drought_code(temp_f, humidity, precipitation)
        fwi == calculate_fire_weather_index(temp_f, humidity, wind_speed_mph,
                                            drought_code)
    IN [temperature_f |-> temp_f,
        temperature_c |-> Get(current, "temperature_2m", QInt(20)),
        humidity |-> humidity,
        wind_speed_mph |-> wind_speed_mph,
        wind_speed_kmh |-> Get(current, "wind_speed_10m", QInt(0)),
        wind_direction |-> Get(current, "wind_direction_10m", QInt(0)),
        pressure |-> Get(current, "surface_pressure", Q(101325, 100)),
        precipitation |-> precipitation,
        drought_code |-> drought_code,
        fire_weather_index |-> fwi,
        red_flag_warning |->
            check_red_flag_conditions(temp_f, humidity, wind_speed_mph),
        last_updated |-> "isoformat",
        forecast |-> process_forecast(hourly)]

\* lines 154-184: the row _process_historical_weather computes for one day
\* of the payload's daily lists
process_historical_row(day) ==
    LET temp_max_f == celsius_to_fahrenheit(day.temperature_2m_max)
        temp_mean_f == celsius_to_fahrenheit(day.temperature_2m_mean)
        wind_max_mph == kmh_to_mph(day.wind_speed_10m_max)
        wind_mean_mph == kmh_to_mph(day.wind_speed_10m_mean)
        drought_code == calculate_drought_code(
                            temp_mean_f, day.relative_humidity_2m_mean,
                            day.precipitation_sum)
    IN [temp_max_f |-> temp_max_f,
        temp_mean_f |-> temp_mean_f,
        humidity_min |-> day.relative_humidity_2m_min,
        humidity_mean |-> day.relative_humidity_2m_mean,
        wind_max_mph |-> wind_max_mph,
        wind_mean_mph |-> wind_mean_mph,
        precipitation |-> day.precipitation_sum,
        drought_code |-> drought_code,
        fire_weather_index |->
            calculate_fire_weather_index(
                temp_mean_f, day.relative_humidity_2m_mean, wind_mean_mph,
                drought_code),
        red_flag_conditions |->
            check_red_flag_conditions(
                temp_max_f, day.relative_humidity_2m_min, wind_max_mph)]

\* lines 228-269, in full: current_month is datetime.now().month (line 229)
get_fallback_weather_data(current_month, longitude) ==
    LET season == IF current_month \in {6, 7, 8, 9}
                  THEN [temp_f |-> 85, humidity |-> 30, wind_speed_mph |-> 12]
                  ELSE IF current_month \in {12, 1, 2}
                  THEN [temp_f |-> 65, humidity |-> 60, wind_speed_mph |-> 8]
                  ELSE [temp_f |-> 75, humidity |-> 45, wind_speed_mph |-> 10]
        inland == QGt(longitude, QInt(-118))
        temp_f == QInt(IF inland THEN season.temp_f + 10 ELSE season.temp_f)
        humidity == QInt(IF inland THEN season.humidity - 10 ELSE season.humidity)
        wind_speed_mph ==
            QInt(IF inland THEN season.wind_speed_mph + 3 ELSE season.wind_speed_mph)
    IN [temperature_f |-> temp_f,
        temperature_c |-> QDiv(QMul(QSub(temp_f, QInt(32)), QInt(5)), QInt(9)),
        humidity |-> QMax(QInt(10), humidity),
        wind_speed_mph |-> wind_speed_mph,
        wind_speed_kmh |-> QDiv(wind_speed_mph, Q(621371, 1000000)),
        wind_direction |-> QInt(270),
        pressure |-> Q(101325, 100),
        precipitation |-> QInt(0),
        drought_code |-> calculate_drought_code(temp_f, humidity, QInt(0)),
        fire_weather_index |->
            calculate_fire_weather_index(temp_f, humidity, wind_speed_mph, QInt(50)),
        red_flag_warning |->
            check_red_flag_conditions(temp_f, humidity, wind_speed_mph),
        last_updated |-> "isoformat",
        forecast |->
            [next_24h_max_temp |-> QAdd(temp_f, QInt(5)),
             next_24h_min_humidity |-> QMax(QInt(10), QSub(humidity, QInt(10))),
             next_24h_max_wind |-> QAdd(wind_speed_mph, QInt(5)),
             precipitation_probability |->
                 IF current_month \in {11, 12, 1, 2, 3} THEN QInt(5) ELSE QInt(0)],
        data_source |-> "fallback_estimates"]

(***************************************************************************)
(* Inputs of the observation functions.                                    *)
(***************************************************************************)
\* the dicts with the one key and a value of Values, and the dict without it
Opt(key, Values) == { <<>> } \cup { key :> v : v \in Values }

\* current.temperature_2m (C): 25 (77 F), 265/9 (85 F), 35 (95 F)
TemperatureSamples == {QInt(25), Q(265, 9), QInt(35)}
\* current.relative_humidity_2m (%)
HumiditySamples == {QInt(9), QInt(20), QInt(21)}
\* current.wind_speed_10m (km/h): 30 (18.6 mph), 25/0.621371 (25 mph),
\* 41 (25.5 mph)
WindSamples == {QInt(30), Q(25000000, 621371), QInt(41)}

\* the "hourly" part of a payload
HourlySamples ==
    { [temperature_2m |-> <<QInt(30), QInt(36)>>,
       relative_humidity_2m |-> <<QInt(15), QInt(9)>>,
       wind_speed_10m |-> <<QInt(20), QInt(55)>>,
       precipitation_probability |-> <<QInt(0), QInt(10)>>],
      [temperature_2m |-> <<>>, relative_humidity_2m |-> <<QInt(40)>>] }

\* decoded payloads of /forecast: every field of "current" present or not
Payloads ==
    { Merge(c, h) :
        c \in Opt("current",
                  { Merge(Merge(t, rh), Merge(w, p)) :
                      t \in Opt("temperature_2m", TemperatureSamples),
                      rh \in Opt("relative_humidity_2m", HumiditySamples),
                      w \in Opt("wind_speed_10m", WindSamples),
                      p \in Opt("precipitation", {QInt(2)}) }),
        h \in Opt("hourly", HourlySamples) }

\* one day of the payload of /archive
HistoricalDays ==
    { [temperature_2m_max |-> tmax, temperature_2m_mean |-> QInt(20),
       relative_humidity_2m_min |-> rh, relative_humidity_2m_mean |-> QInt(40),
       wind_speed_10m_max |-> w, wind_speed_10m_mean |-> QInt(10),
       precipitation_sum |-> QInt(0)] :
        tmax \in TemperatureSamples, rh \in HumiditySamples, w \in WindSamples }

\* longitudes west and east of -118
LongitudeSamples == {Q(-11878, 100), QInt(-118), Q(-11740, 100)}

NoObservation == [none |-> TRUE]

\* no observation being computed
IdleObservation ==
    /\ obs_input = NoInput
    /\ observation = NoObservation

InitObservationVars ==
    /\ obs_input \in
          { [kind |-> "current", data |-> d] : d \in Payloads }
          \cup { [kind |-> "historical", day |-> d] : d \in HistoricalDays }
          \cup { [kind |-> "fallback", current_month |-> m, longitude |-> lon] :
                    m \in 1..12, lon \in LongitudeSamples }
    /\ observation = NoObservation

\* self._process_current_weather(data), line 71
ProcessCurrent ==
    /\ observation = NoObservation
    /\ obs_input.kind = "current"
    /\ observation' = process_current_weather(obs_input.data)
    /\ UNCHANGED obs_input

\* one row of self._process_historical_weather(data), line 120
ProcessHistorical ==
    /\ observation = NoObservation
    /\ obs_input.kind = "historical"
    /\ observation' = process_historical_row(obs_input.day)
    /\ UNCHANGED obs_input

\* self._get_fallback_weather_data(latitude, longitude), lines 80, 82, 85
ProcessFallback ==
    /\ observation = NoObservation
    /\ obs_input.kind = "fallback"
    /\ observation' = get_fallback_weather_data(obs_input.current_month,
                                                obs_input.longitude)
    /\ UNCHANGED obs_input

ObservationStep == ProcessCurrent \/ ProcessHistorical \/ ProcessFallback

(***************************************************************************)
(* make_ensemble_prediction from the feature dict on (production_api.py,   *)
(* lines 330-407): the DataFrame of one row, the selection of the expected *)
(* columns, and the prediction from what the classifiers answer.           *)
(***************************************************************************)
\* line 332: pd.DataFrame([features]); the columns are the keys of the
\* dict in its order
DataFrame(columns, row) == [columns |-> columns, row |-> row]

\* lines 348-352: a column that is missing is added with 0.0, then the
\* expected columns are selected by name, in the expected order
select_expected(feature_df) ==
    [i \in 1..Len(expected_features) |->
        IF expected_features[i] \in SeqRange(feature_df.columns)
        THEN feature_df.row[expected_features[i]]
        ELSE QInt(0)]

\* the sequence s without its k-th element
Without(s, k) == SubSeq(s, 1, k - 1) \o SubSeq(s, k + 1, Len(s))

\* the vector of an area with registry entry, fallback weather and a fire
\* nearby, built on Jul 31
sample_features ==
    prepare_enhanced_features(
        CHOOSE a \in AreaSamples : a.name = "malibu", fallback_weather,
        request_incidents, 212, 212)

\* key orders of a feature dict: the expected one, the first two keys
\* swapped, one key missing, one key more
ColumnLists ==
    { expected_features,
      <<expected_features[2], expected_features[1]>>
          \o SubSeq(expected_features, 3, Len(expected_features)),
      Append(expected_features, "population") }
    \cup { Without(expected_features, k) : k \in 1..Len(expected_features) }

\* feature_name.replace('_', ' ').title() (line 392) of the 48 expected
\* names, slot by slot
expected_titles ==
    << "Temperature F", "Temperature C", "Humidity", "Wind Speed Mph",
       "Vapor Pressure Deficit", "Heat Index", "Distance To Nearest Fire",
       "Fire Size Nearby", "Fire Containment Nearby", "Num Nearby Fires",
       "Total Fire Area", "Avg Fire Age Days", "Fire Threat Index",
       "Elevation", "Slope", "Aspect Numeric", "Vegetation Type Numeric",
       "Topographic Position", "Distance To Coast", "Distance To Urban",
       "Road Density", "Month", "Day Of Year", "Is Fire Season",
       "Is Peak Season", "Is Shoulder Season", "Days Since Rain",
       "Fire Season Progress", "Years Since Last Major Fire",
       "Fire Return Interval", "Suppression Difficulty",
       "Evacuation Time Estimate", "Fuel Load Index",
       "Ignition Risk Sources", "Haines Index", "Burning Index",
       "Energy Release Component", "Spread Component",
       "Temp Humidity Interaction", "Temp Wind Interaction",
       "Humidity Wind Interaction", "Weather Stress Index",
       "Fire Size Distance Ratio", "Fire Containment Urgency",
       "Slope Wind Interaction", "Elevation Temp Interaction",
       "Season Weather Risk", "Peak Season Multiplier" >>

\* line 354: StandardScaler.transform, (x - mean_) / scale_ slot by slot
transform(scaler, X) ==
    [i \in DOMAIN X |-> QDiv(QSub(X[i], scaler.mean[i]), scaler.scale[i])]

\* line 386: feature_contributions = X_scaled[0] * feature_importance
contributions_of(X_scaled, feature_importance) ==
    [i \in DOMAIN X_scaled |-> QMul(X_scaled[i], feature_importance[i])]

\* np.abs
QAbs(a) == [n |-> Abs(a.n), d |-> a.d]

\* the slots among `slots` whose magnitude no other slot exceeds
Largest(magnitude, slots) ==
    { i \in slots : \A j \in slots : QLe(magnitude[j], magnitude[i]) }

\* line 387: np.argsort(np.abs(feature_contributions))[-5:][::-1], the n
\* slots of largest magnitude, the largest first.  argsort does not say in
\* which order it leaves equal magnitudes: every order is an outcome.
RECURSIVE top_indices(_, _, _)
top_indices(magnitude, slots, n) ==
    IF n = 0 \/ slots = {} THEN { <<>> }
    ELSE UNION { { <<i>> \o rest :
                     rest \in top_indices(magnitude, slots \ {i}, n - 1) } :
                 i \in Largest(magnitude, slots) }

\* top_factors whose value is the normalized one
top_factors_scaled_value(indices, X, X_scaled, feature_contributions) ==
    [k \in DOMAIN indices |->
        [factor |-> expected_titles[indices[k]],
         contribution |-> feature_contributions[indices[k]],
         value |-> X_scaled[indices[k]]]]

\* lines 389-396: one entry per index: the titled name, the signed
\* contribution and the value of X at the index
top_factors(indices, X, X_scaled, feature_contributions) ==
    [k \in DOMAIN indices |->
        [factor |-> expected_titles[indices[k]],
         contribution |-> feature_contributions[indices[k]],
         value |-> X[indices[k]]]]

Slots == 1..Len(expected_features)

\* predictor.scalers['main']: the unit scaler, and one that centers every
\* slot at 50 and halves it
ScalerSamples ==
    { [mean |-> [i \in Slots |-> QInt(0)], scale |-> [i \in Slots |-> QInt(1)]],
      [mean |-> [i \in Slots |-> QInt(50)], scale |-> [i \in Slots |-> QInt(2)]] }

\* predictor.models['xgboost'].feature_importances_ (non-negative, sum 1):
\* uniform, rising with the slot, and all on four slots
ImportanceSamples ==
    { [i \in Slots |-> Q(1, 48)],
      [i \in Slots |-> Q(i, 1176)],
      [i \in Slots |-> IF i \in {7, 8, 13, 14} THEN Q(1, 4) ELSE QInt(0)] }

NoInference == [status |-> "none"]

\* no inference asked for
IdleInference ==
    /\ inference_input = NoInput
    /\ inference_result = NoInference

InitInferenceVars ==
    /\ inference_input \in
          { [features |-> DataFrame(cols,
                             [k \in SeqRange(cols) |->
                                 IF k \in DOMAIN sample_features
                                 THEN sample_features[k] ELSE QInt(1000)]),
             scaler |-> s,
             feature_importance |-> w,
             answer |-> a] :
               cols \in ColumnLists, s \in ScalerSamples,
               w \in ImportanceSamples, a \in ModelAnswers }
    /\ inference_result = NoInference

\* lines 330-407: nothing on the way from the dict to the returned dict
\* tests the keys of the dict
Infer ==
    /\ inference_result = NoInference
    /\ LET X == select_expected(inference_input.features)
           X_scaled == transform(inference_input.scaler, X)
           feature_contributions ==
               contributions_of(X_scaled, inference_input.feature_importance)
           magnitude == [i \in Slots |-> QAbs(feature_contributions[i])]
       IN \E indices \in top_indices(magnitude, Slots, 5) :
             inference_result' =
                 [status |-> "returned",
                  X |-> X,
                  X_scaled |-> X_scaled,
                  prediction |->
                      make_ensemble_prediction(inference_input.answer.xgb_proba,
                                               inference_input.answer.rf_proba),
                  top_factors |->
                      top_factors(indices, X, X_scaled, feature_contributions)]
    /\ UNCHANGED inference_input

(***************************************************************************)
(* Concurrent /predict requests (production_api.py, lines 126-162).  Each  *)
(* request is a coroutine on the one event loop: it runs without           *)
(* interruption from its first line to its first suspension, which is the  *)
(* await of gather in process_area_batch (line 173); the inferences of its *)
(* areas run one by one in executor threads (lines 206-212).               *)
(***************************************************************************)
\* a request that has arrived and whose handler has not run yet
NewClient(n) ==
    [pc |-> "arrived", areas_left |-> n, saw_loaded |-> FALSE,
     trained |-> FALSE, inferred_unloaded |-> FALSE]

NoClients == [c \in Clients |-> NewClient(0)]

IdleClients == clients = NoClients

\* NumClients requests have arrived, each with 0..MaxAreas areas
InitClientVars ==
    /\ InitModel
    /\ clients \in [Clients -> { NewClient(n) : n \in 0..MaxAreas }]

\* lines 127-141: the handler runs up to its first suspension: the model is
\* trained if it is not loaded, and the pipelines of the areas are started
ClientEnters(c) ==
    /\ clients[c].pc = "arrived"
    /\ IF ~model_loaded
       THEN train_model_if_needed
       ELSE UNCHANGED <<model_loaded, predictor_models, trainings>>
    /\ clients' = [clients EXCEPT ![c].pc = "serving",
                                  ![c].saw_loaded = model_loaded,
                                  ![c].trained = (trainings' # trainings)]
    /\ UNCHANGED startup_load

\* lines 206-212: make_ensemble_prediction runs for one area of request c
ClientInference(c) ==
    /\ clients[c].pc = "serving"
    /\ clients[c].areas_left > 0
    /\ clients' = [clients EXCEPT ![c].areas_left = @ - 1,
                                  ![c].inferred_unloaded = @ \/ ~model_loaded]
    /\ UNCHANGED mvars

\* lines 146-159: every area is answered, the response is returned
ClientReturns(c) ==
    /\ clients[c].pc = "serving"
    /\ clients[c].areas_left = 0
    /\ clients' = [clients EXCEPT ![c].pc = "returned"]
    /\ UNCHANGED mvars

ServingStep ==
    \/ \E c \in Clients : ClientEnters(c)
    \/ \E c \in Clients : ClientInference(c)
    \/ \E c \in Clients : ClientReturns(c)

(***************************************************************************)
(* The specifications.                                                     *)
(***************************************************************************)
\* everything but the named part is idle
IdleExcept(part) ==
    /\ part = "weather" \/ InitWeatherVars
    /\ part = "predict" \/ IdlePredict
    /\ part = "features" \/ IdleFeatures
    /\ part \in {"batch", "serving"} \/ IdleModel
    /\ part = "batch" \/ IdleBatch
    /\ part = "serving" \/ IdleClients
    /\ part = "observation" \/ IdleObservation
    /\ part = "inference" \/ IdleInference

InitWeather == InitWeatherVars /\ IdleExcept("weather")
InitPredict == InitPredictVars /\ IdleExcept("predict")
InitFeatures == InitFeatureVars /\ IdleExcept("features")
InitBatch == InitBatchVars /\ IdleExcept("batch")
InitObservation == InitObservationVars /\ IdleExcept("observation")
InitInference == InitInferenceVars /\ IdleExcept("inference")
InitServing == InitClientVars /\ IdleExcept("serving")

NextWeather == WeatherStep /\ UNCHANGED <<pvars, fvars, bvars, ovars, ivars, svars>>
NextPredict == Predict /\ UNCHANGED <<wvars, fvars, bvars, ovars, ivars, svars>>
NextFeatures == BuildFeatures /\ UNCHANGED <<wvars, pvars, bvars, ovars, ivars, svars>>
NextBatch == BatchStep /\ UNCHANGED <<wvars, pvars, fvars, ovars, ivars, svars>>
NextObservation == ObservationStep /\ UNCHANGED <<wvars, pvars, fvars, bvars, ivars, svars>>
NextServing ==
    ServingStep /\ UNCHANGED <<wvars, pvars, fvars, rvars, ovars, ivars>>
NextInference == Infer /\ UNCHANGED <<wvars, pvars, fvars, bvars, ovars, svars>>

SpecWeather == InitWeather /\ [][NextWeather]_vars
SpecPredict == InitPredict /\ [][NextPredict]_vars
SpecFeatures == InitFeatures /\ [][NextFeatures]_vars
SpecObservation == InitObservation /\ [][NextObservation]_vars
SpecInference == InitInference /\ [][NextInference]_vars
SpecBatch == InitBatch /\ [][NextBatch]_vars
SpecServing == InitServing /\ [][NextServing]_vars

(***************************************************************************)
(* Claims about get_current_weather (SpecWeather).                         *)
(***************************************************************************)
\* the key of the call coroutine c is in
KeyOf(c) == cache_key(call[c].latitude, call[c].longitude)

\* the outcomes in which the try block raises
FailureOutcomes == {"http_429", "http_error", "transport_error", "timeout",
                    "invalid_json", "malformed"}

\* C3: any two network requests to the weather provider start at least
\* min_request_interval (10 s) apart.
C3_MinInterval ==
    \A i, j \in 1..Len(net_starts) :
        i < j => net_starts[j] - net_starts[i] >= min_request_interval

\* C4 as stated: get_current_weather never raises, and for every outcome
\* other than a complete successful response (transport error, timeout,
\* 429, other status, malformed or incomplete payload) it returns a
\* fallback observation.
C4_AlwaysFallback ==
    \A c \in Callers :
        /\ call[c].pc # "raised"
        /\ (call[c].pc = "returned" /\ call[c].outcome \in NetOutcomes \ {"ok"})
              => call[c].result.data_source = "fallback_estimates"

\* C4 amended: get_current_weather never raises; a transport error, a
\* timeout, a 429 or other non-success status and a payload that cannot be
\* parsed or processed give the fallback observation; a payload with fields
\* missing is processed with the per-field defaults and returned as a
\* fetched observation.
C4_NeverRaises ==
    \A c \in Callers :
        /\ call[c].pc # "raised"
        /\ (call[c].pc = "returned" /\ call[c].outcome \in FailureOutcomes)
              => call[c].result =
                    _get_fallback_weather_data(call[c].latitude, call[c].longitude)
        /\ (call[c].pc = "returned" /\ call[c].outcome = "missing_fields")
              => /\ call[c].result.data_source = "open_meteo"
                 /\ call[c].result.defaults

\* C4 witness: calls have returned the fallback after a malformed payload
\* and after a timeout
C4_Witness ==
    \E c, d \in Callers :
        /\ call[c].pc = "returned" /\ call[c].outcome = "malformed"
        /\ call[c].result.data_source = "fallback_estimates"
        /\ call[d].pc = "returned" /\ call[d].outcome = "timeout"
        /\ call[d].result.data_source = "fallback_estimates"

\* C5 as stated: two calls for the same rounded key, both made within the
\* 600 s window, return identical observations and together trigger at most
\* one network access.  (While less than cache_duration has passed since
\* the service started, every call so far was made within the window.)
C5_CacheIdempotence ==
    \A a, b \in Callers :
        (/\ a # b
         /\ call[a].pc = "returned" /\ call[b].pc = "returned"
         /\ KeyOf(a) = KeyOf(b)
         /\ now - StartTime < cache_duration)
        => /\ call[a].result = call[b].result
           /\ call[a].net + call[b].net <= 1

\* coroutine c starts a get_current_weather call in this step
Starts(c) ==
    /\ call[c].pc \in {"idle", "returned"}
    /\ call'[c] # call[c]

\* C5 amended: when a call for a key has returned an observation it fetched
\* and stored, a call for the same rounded key that starts after that
\* return, while that observation is still the cache entry and less than
\* 600 s old, returns the identical observation with no network access (the
\* two calls together trigger exactly one).  Concurrent misses each access
\* the network, and a failed fetch stores nothing.
C5_IdempotentAfterStore ==
    [][\A a, b \in Callers :
        (/\ a # b
         /\ Starts(b)
         /\ call[a].pc = "returned"
         /\ call[a].outcome \in {"ok", "missing_fields"}
         /\ cache_key(call'[b].latitude, call'[b].longitude) = KeyOf(a)
         /\ KeyOf(a) \in DOMAIN cache
         /\ cache[KeyOf(a)].data = call[a].result
         /\ now - cache[KeyOf(a)].time < cache_duration)
        => /\ call'[b].pc = "returned"
           /\ call'[b].result = call[a].result
           /\ call[a].net + call'[b].net = 1
           /\ net_starts' = net_starts]_vars

\* C5 witness: a call returned the observation another call had fetched for
\* other coordinates that round to the same key
C5_Witness ==
    \E a, b \in Callers :
        /\ a # b
        /\ call[a].pc = "returned" /\ call[a].outcome = "ok"
        /\ call[b].pc = "returned" /\ call[b].net = 0
        /\ call[b].latitude # call[a].latitude
        /\ KeyOf(a) = KeyOf(b)
        /\ call[b].result = call[a].result

\* C6: a call that finds an entry younger than 600 s under its rounded key
\* returns the cached observation at once: no network access, no wait at
\* the rate limiter, last_request_time and the cache unchanged.
C6_HitBypassesGate ==
    [][\A c \in Callers :
        LET key == cache_key(call'[c].latitude, call'[c].longitude) IN
        (/\ Starts(c)
         /\ key \in DOMAIN cache
         /\ now - cache[key].time < cache_duration)
        => /\ call'[c].pc = "returned"
           /\ call'[c].result = cache[key].data
           /\ call'[c].net = 0
           /\ call'[c].wake = 0
           /\ net_starts' = net_starts
           /\ last_request_time' = last_request_time
           /\ cache' = cache
           /\ now' = now]_vars

\* C6 witness: a call has returned a cached observation while the rate
\* limiter would have asked a request to wait
C6_Witness ==
    \E c \in Callers :
        /\ call[c].pc = "returned"
        /\ call[c].net = 0
        /\ call[c].result.data_source = "open_meteo"
        /\ now - last_request_time < min_request_interval

\* the calls that have read last_request_time (line 31) and have not yet
\* written it (line 69) nor left the function
InLimiter == { c \in Callers : call[c].pc \in {"sleeping", "requesting"} }

\* C17: the read-wait-update of the rate limiter is a critical section: at
\* most one call at a time is between its read of last_request_time and
\* its write of it, so no two calls that based their wait on the same
\* value are both in a network request.
C17_LimiterCriticalSection == Cardinality(InLimiter) <= 1

\* a complete cache entry: a processed observation of a request that was
\* sent, and an insertion time the clock has shown
CompleteEntry(e) ==
    /\ DOMAIN e = {"data", "time"}
    /\ DOMAIN e.data = DOMAIN NoObs
    /\ e.data.data_source = "open_meteo"
    /\ e.data.serial \in 1..Len(net_starts)
    /\ e.time \in StartTime..now

\* the keys whose entry a step writes
Written == { k \in DOMAIN cache' : k \notin DOMAIN cache \/ cache'[k] # cache[k] }

\* C18: in every reachable state every cache entry is a complete pair
\* (processed observation, insertion time); every entry is written whole,
\* by one successful fetch for its key, with the observation that fetch
\* returns and the time of the write; an overwrite by a redundant fetch
\* leaves no other entry changed and no entry removed.
C18_EntriesWholeAndOwned ==
    /\ [](\A k \in DOMAIN cache : CompleteEntry(cache[k]))
    /\ [][/\ DOMAIN cache \subseteq DOMAIN cache'
          /\ \A k \in Written :
                \E c \in Callers :
                    /\ call[c].pc = "requesting"
                    /\ KeyOf(c) = k
                    /\ call'[c].pc = "returned"
                    /\ call'[c].outcome \in {"ok", "missing_fields"}
                    /\ cache'[k] = [data |-> call'[c].result, time |-> now]
                    /\ Written = {k}]_vars

\* C18 witness: two fetches for one key have both succeeded, at different
\* times, and the entry is the pair the later one wrote
C18_Witness ==
    \E a, b \in Callers :
        /\ a # b
        /\ call[a].pc = "returned" /\ call[a].net = 1
        /\ call[b].pc = "returned" /\ call[b].net = 1
        /\ call[a].outcome \in {"ok", "missing_fields"}
        /\ call[b].outcome \in {"ok", "missing_fields"}
        /\ KeyOf(a) = KeyOf(b)
        /\ KeyOf(a) \in DOMAIN cache
        /\ call[a].result # call[b].result
        /\ cache[KeyOf(a)] = [data |-> call[b].result, time |-> now]
        /\ now > StartTime

(***************************************************************************)
(* Claims about make_ensemble_prediction (SpecPredict).                    *)
(***************************************************************************)
Predicted == prediction_result.risk_level # "none"

\* the percentage the level is computed from: risk_score * 100
FloatPercentage == QMul(prediction_result.risk_score, QInt(100))

\* the precedence rule of the specification, section 4.3 step 5
RuleLevel(percentage, confidence) ==
    IF percentage.n > 75 * percentage.d /\ 4 * confidence.n > 3 * confidence.d
    THEN "Extreme"
    ELSE IF percentage.n >= 50 * percentage.d THEN "High"
    ELSE IF percentage.n >= 25 * percentage.d THEN "Moderate"
    ELSE "Low"

\* C9: the level follows the precedence: percentage > 75 and confidence >
\* 0.75 gives Extreme; otherwise percentage >= 50 gives High; otherwise
\* percentage >= 25 gives Moderate; otherwise Low.  A percentage above 75
\* with confidence <= 0.75 gives High.
C9_LevelPrecedence ==
    Predicted =>
        /\ prediction_result.risk_level =
               RuleLevel(FloatPercentage, prediction_result.confidence)
        /\ (/\ FloatPercentage.n > 75 * FloatPercentage.d
            /\ 4 * prediction_result.confidence.n
                  <= 3 * prediction_result.confidence.d)
               => prediction_result.risk_level = "High"

\* C9 witness: a percentage between 75 and 80 with confidence <= 0.75 was
\* classified High
C9_Witness ==
    /\ Predicted
    /\ FloatPercentage.n > 75 * FloatPercentage.d
    /\ FloatPercentage.n < 80 * FloatPercentage.d
    /\ 4 * prediction_result.confidence.n <= 3 * prediction_result.confidence.d
    /\ prediction_result.risk_level = "High"

LevelRank(level) ==
    CASE level = "Low" -> 0
      [] level = "Moderate" -> 1
      [] level = "High" -> 2
      [] level = "Extreme" -> 3

\* percentages 0, 0.5, 1, ..., 100
PercentageSamples == { Q(k, 2) : k \in 0..200 }

\* C10: for the confidence of the prediction, no lower percentage gets a
\* strictly higher level than the prediction's, and no higher percentage a
\* strictly lower one.
C10_LevelMonotonic ==
    Predicted =>
        \A q \in PercentageSamples :
            LET other == LevelRank(risk_level(q, prediction_result.confidence))
                mine == LevelRank(prediction_result.risk_level)
            IN /\ QLe(q, FloatPercentage) => other <= mine
               /\ QGe(q, FloatPercentage) => other >= mine

\* C10 witness: a prediction at 80 percent or more with confidence <= 0.75,
\* where the level is decided by the last branch, is High like the
\* percentages just below 80
C10_Witness ==
    /\ Predicted
    /\ FloatPercentage.n >= 80 * FloatPercentage.d
    /\ 4 * prediction_result.confidence.n <= 3 * prediction_result.confidence.d
    /\ prediction_result.risk_level = "High"
    /\ risk_level(Q(159, 2), prediction_result.confidence) = "High"

(***************************************************************************)
(* Claims about prepare_enhanced_features (SpecFeatures).                  *)
(***************************************************************************)
Built == features # NoFeatures

\* C7: the built feature vector has exactly the 48 named slots of the
\* predictor's expected feature list, none missing and none extra, and
\* every slot holds a finite number.
C7_FortyEightFiniteSlots ==
    Built =>
        /\ Len(expected_features) = 48
        /\ Cardinality(SeqRange(expected_features)) = 48
        /\ DOMAIN features = SeqRange(expected_features)
        /\ \A slot \in DOMAIN features : IsFinite(features[slot])

\* C7 witness: a vector was built for an area without registry entry, from
\* a weather dict with every field missing, with an active fire at the
\* area's center (distance 0, the smallest divisor of the ratio feature)
C7_Witness ==
    /\ Built
    /\ feature_input.area.name = "elsewhere"
    /\ "temperature_f" \notin DOMAIN feature_input.weather_data
    /\ features["distance_to_nearest_fire"] = QInt(0)
    /\ features["fire_size_nearby"] = QInt(200)
    /\ IsFinite(features["fire_size_distance_ratio"])

\* C8: within one build every time-derived slot is derived from one and the
\* same instant: the month slot is the month of the day_of_year slot, and
\* the season slots, days_since_rain and fire_season_progress follow from
\* that month.
C8_OneInstant ==
    Built =>
        LET m == month_of(features["day_of_year"].n)
        IN /\ features["month"] = QInt(m)
           /\ features["is_fire_season"] = BoolInt(m \in 5..10)
           /\ features["is_peak_season"] = BoolInt(m \in 7..9)
           /\ features["is_shoulder_season"] = BoolInt(m \in {5, 6, 10})
           /\ features["days_since_rain"] = calculate_days_since_rain(m)

(***************************************************************************)
(* Claims about the /predict request (SpecBatch).                          *)
(***************************************************************************)
Returned == req_pc = "returned"

\* the degraded prediction: level Moderate, score 0.5, confidence 0.5
Degraded(p) ==
    /\ p.risk_level = "Moderate"
    /\ p.risk_score = Q(1, 2)
    /\ p.confidence = Q(1, 2)

\* C1: the request returns exactly N predictions and the i-th prediction
\* belongs to the i-th input area, for every N in 0..MaxAreas (more than a
\* batch included), every set of failing per-area pipelines and every order
\* of completion.
C1_OnePredictionPerAreaInOrder ==
    Returned =>
        /\ response.status = 200
        /\ Len(response.predictions) = Len(request.areas)
        /\ \A i \in 1..Len(request.areas) :
              response.predictions[i].area_name = request.areas[i].display_name

\* C1 witness: a request of more than one batch was answered, one pipeline
\* failed, the second task of the first batch completed before the first,
\* and the first two areas differ
C1_Witness ==
    /\ Returned
    /\ Len(request.areas) = batch_size + 1
    /\ request.areas[1].display_name # request.areas[2].display_name
    /\ completed[1] = 2
    /\ \E k \in DOMAIN tasks : tasks[k].failed # "none"
    /\ \E k \in DOMAIN tasks : tasks[k].failed = "none"
    /\ Len(response.predictions) = batch_size + 1

Observed == observation # NoObservation

\* the number of red-flag conditions met by the reported values
ConditionsMet(temp_f, humidity, wind_mph) ==
    Cardinality({ i \in 1..3 :
                    \/ i = 1 /\ QGe(temp_f, QInt(85))
                    \/ i = 2 /\ QLe(humidity, QInt(20))
                    \/ i = 3 /\ QGe(wind_mph, QInt(25)) })

\* C11: red_flag_warning is true exactly when at least 2 of temperature
\* >= 85 F, humidity <= 20 %, wind >= 25 mph hold for the values the
\* observation reports; for processed, fallback and historical rows alike.
C11_RedFlagTwoOfThree ==
    Observed =>
        IF obs_input.kind = "historical"
        THEN observation.red_flag_conditions =
                 (ConditionsMet(observation.temp_max_f, observation.humidity_min,
                                observation.wind_max_mph) >= 2)
        ELSE observation.red_flag_warning =
                 (ConditionsMet(observation.temperature_f, observation.humidity,
                                observation.wind_speed_mph) >= 2)

\* C11 witness: a fallback observation with temperature 95 F, humidity
\* exactly 20 % and wind 15 mph has the flag set
C11_Witness ==
    /\ Observed
    /\ obs_input.kind = "fallback"
    /\ observation.temperature_f = QInt(95)
    /\ observation.humidity = QInt(20)
    /\ observation.wind_speed_mph = QInt(15)
    /\ observation.red_flag_warning = TRUE

(***************************************************************************)
(* Claims about generate_fire_proximity_features (SpecFeatures).           *)
(***************************************************************************)
\* the positions in the incident list of the active incidents, and of the
\* active incidents within 50 km
ActiveIncidents ==
    { i \in DOMAIN feature_input.fire_incidents :
         feature_input.fire_incidents[i].is_active }
NearbyIncidents ==
    { i \in ActiveIncidents :
         QLe(feature_input.fire_incidents[i].distance, QInt(50)) }

\* distance 200, size 0, containment 100, count 0, total area 0, threat 0
SentinelFireFeatures ==
    /\ features["distance_to_nearest_fire"] = QInt(200)
    /\ features["fire_size_nearby"] = QInt(0)
    /\ features["fire_containment_nearby"] = QInt(100)
    /\ features["num_nearby_fires"] = QInt(0)
    /\ features["total_fire_area"] = QInt(0)
    /\ features["fire_threat_index"] = QInt(0)

\* C12: with zero active incidents (empty list, or only inactive ones) the
\* fire-proximity features are the sentinel values, for every area.
C12_NoActiveIncidentSentinel ==
    (Built /\ ActiveIncidents = {}) => SentinelFireFeatures

\* C12 witness: a vector built from a list of two inactive incidents
C12_Witness ==
    /\ Built
    /\ Len(feature_input.fire_incidents) = 2
    /\ ActiveIncidents = {}
    /\ SentinelFireFeatures

\* C19: with active incidents none of which lies within 50 km, the
\* fire-proximity features are the sentinel values, distance 200 included.
C19_NoneWithin50Sentinel ==
    (Built /\ ActiveIncidents # {} /\ NearbyIncidents = {}) => SentinelFireFeatures

\* the sum of the acres of the incidents at the positions S
RECURSIVE AcresOf(_)
AcresOf(S) ==
    IF S = {} THEN QInt(0)
    ELSE LET i == CHOOSE j \in S : TRUE
         IN QAdd(feature_input.fire_incidents[i].acres_burned, AcresOf(S \ {i}))

\* C20: with an active incident within 50 km (distance <= 50) the
\* aggregates are taken over exactly the active incidents within 50 km:
\* minimum distance, maximum acres, minimum containment, sum of acres and
\* their number; the threat index is at most 100, and above 0 when one of
\* them has acres > 0 and containment < 100.
C20_AggregatesOverNearby ==
    (Built /\ NearbyIncidents # {}) =>
        LET fi == feature_input.fire_incidents
        IN /\ \E i \in NearbyIncidents :
                 features["distance_to_nearest_fire"] = fi[i].distance
           /\ \A i \in NearbyIncidents :
                 QLe(features["distance_to_nearest_fire"], fi[i].distance)
           /\ \E i \in NearbyIncidents :
                 features["fire_size_nearby"] = fi[i].acres_burned
           /\ \A i \in NearbyIncidents :
                 QGe(features["fire_size_nearby"], fi[i].acres_burned)
           /\ \E i \in NearbyIncidents :
                 features["fire_containment_nearby"] = fi[i].percent_contained
           /\ \A i \in NearbyIncidents :
                 QLe(features["fire_containment_nearby"], fi[i].percent_contained)
           /\ features["total_fire_area"] = AcresOf(NearbyIncidents)
           /\ features["num_nearby_fires"] = QInt(Cardinality(NearbyIncidents))
           /\ QLe(features["fire_threat_index"], QInt(100))
           /\ (\E i \in NearbyIncidents :
                  /\ QGt(fi[i].acres_burned, QInt(0))
                  /\ QLt(fi[i].percent_contained, QInt(100)))
                 => QGt(features["fire_threat_index"], QInt(0))

\* C20 witness: a vector built from an incident exactly 50 km away and one
\* 120 km away, both active: the aggregates are those of the first alone
C20_Witness ==
    /\ Built
    /\ Len(feature_input.fire_incidents) = 2
    /\ feature_input.fire_incidents[1].name = "far"
    /\ feature_input.fire_incidents[2].name = "edge"
    /\ features["distance_to_nearest_fire"] = QInt(50)
    /\ features["num_nearby_fires"] = QInt(1)
    /\ features["total_fire_area"] = Q(2501, 2)
    /\ QGt(features["fire_threat_index"], QInt(0))

(***************************************************************************)
(* Claims about the feature dict handed to make_ensemble_prediction        *)
(* (SpecInference).                                                        *)
(***************************************************************************)
Inferred == inference_result # NoInference

\* C13: a feature vector whose shape does not match the 48-slot contract
\* (a slot missing, an extra slot, a different order) makes inference
\* surface an error; it is not answered with a prediction.
C13_ShapeMismatchSurfaces ==
    (Inferred /\ inference_input.features.columns # expected_features)
        => inference_result.status = "raised"

(***************************************************************************)
(* Claims about the model bundle (SpecBatch).                              *)
(***************************************************************************)
\* C14: when the model bundle was missing or could not be loaded at
\* startup, no /predict request is answered with predictions.
C14_NoServingWithoutBundle ==
    (Returned /\ startup_load # "loaded") => response.status # 200

(***************************************************************************)
(* Claims about the reported numbers (SpecPredict).                        *)
(***************************************************************************)
\* round(x) of a non-negative x: to the nearest integer, a tie to the even
\* one
RoundHalfEven(a) ==
    LET whole == a.n \div a.d
        twice == 2 * (a.n % a.d)
    IN IF twice < a.d THEN whole
       ELSE IF twice > a.d THEN whole + 1
       ELSE IF whole % 2 = 0 THEN whole ELSE whole + 1

\* C15: the reported integer risk_percentage equals round(risk_score * 100)
\* and the reported confidence equals the largest of the four blended
\* class probabilities.
C15_PercentageIsRounded ==
    Predicted =>
        /\ prediction_result.risk_percentage = RoundHalfEven(FloatPercentage)
        /\ prediction_result.confidence =
               max_proba(ensemble(proba[1], proba[2]))

\* the sum of the four entries of a row
RowSum(row) == QAdd(QAdd(row[1], row[2]), QAdd(row[3], row[4]))

\* C29: the blend of two 4-class distributions is a distribution (entries
\* >= 0, sum 1); the prediction has risk_score in [0.125, 0.875],
\* confidence in [0.25, 1] and integer risk_percentage in 12..87; the level
\* Low is returned only when risk_score < 0.25.
C29_BlendIsDistribution ==
    Predicted =>
        /\ \A i \in RiskClasses :
              QGe(prediction_result.all_probabilities[i], QInt(0))
        /\ RowSum(prediction_result.all_probabilities) = QInt(1)
        /\ QGe(prediction_result.risk_score, Q(125, 1000))
        /\ QLe(prediction_result.risk_score, Q(875, 1000))
        /\ QGe(prediction_result.confidence, Q(25, 100))
        /\ QLe(prediction_result.confidence, QInt(1))
        /\ prediction_result.risk_percentage \in 12..87
        /\ prediction_result.risk_level = "Low"
              => QLt(prediction_result.risk_score, Q(25, 100))

\* C29 witness: two different rows were blended into a distribution whose
\* largest entry is below both rows' largest, and the level is Low
C29_Witness ==
    /\ Predicted
    /\ proba[1] # proba[2]
    /\ QLt(prediction_result.confidence, max_proba(proba[1]))
    /\ QLt(prediction_result.confidence, max_proba(proba[2]))
    /\ prediction_result.risk_level = "Low"
    /\ prediction_result.risk_percentage > 12

(***************************************************************************)
(* Claims about the fallback observation (SpecObservation).                *)
(***************************************************************************)
\* the fields the rest of the pipeline reads from a weather observation
\* (production_api.py, lines 258-265 and 632-636), and the ones the
\* observation documents
PipelineFields ==
    {"temperature_f", "temperature_c", "humidity", "wind_speed_mph",
     "vapor_pressure_deficit", "heat_index", "drought_code",
     "fire_weather_index", "red_flag_warning", "forecast", "last_updated"}

\* C16: every fallback observation populates every field the rest of the
\* pipeline reads and carries the tag data_source, which no fetched
\* observation carries with the same value.
C16_FallbackComplete ==
    Observed =>
        /\ obs_input.kind = "fallback" =>
              /\ PipelineFields \subseteq DOMAIN observation
              /\ "data_source" \in DOMAIN observation
        /\ obs_input.kind = "current" =>
              Get(observation, "data_source", "none") # "fallback_estimates"

(***************************************************************************)
(* Claims about the returned predictions (SpecBatch).                      *)
(***************************************************************************)
\* C28: every prediction returned for an area, from inference or the
\* degraded default, has the risk_level the precedence rule assigns to its
\* own reported integer risk_percentage and its confidence.
C28_ReportedLevelConsistent ==
    Returned =>
        \A k \in DOMAIN response.predictions :
            LET p == response.predictions[k]
            IN p.risk_level = RuleLevel(QInt(p.risk_percentage), p.confidence)

(***************************************************************************)
(* Claims about failed fetches and expired entries (SpecWeather).          *)
(***************************************************************************)
\* the request of coroutine c completes in this step and the call returns
\* the fallback observation
ReturnsFallback(c) ==
    /\ call[c].pc = "requesting"
    /\ call'[c].pc = "returned"
    /\ call'[c].result.data_source = "fallback_estimates"

\* the outcomes in which the request itself fails: no status 2xx, or a body
\* that is not JSON
RequestFailures == {"http_429", "http_error", "transport_error", "timeout",
                    "invalid_json"}

ReturnsCached(c) ==
    /\ Starts(c)
    /\ call'[c].pc = "returned"
    /\ call'[c].net = 0

\* C27: a call never returns a cached observation 600 s old or older: a
\* call that finds its entry expired goes on to a network request (at once
\* or after the rate limiter's sleep), and when that request fails it
\* returns the fallback observation and the expired entry stays as it was.
C27_NoStaleObservation ==
    /\ [][\A c \in Callers :
             LET key == cache_key(call'[c].latitude, call'[c].longitude) IN
             /\ ReturnsCached(c) =>
                   /\ key \in DOMAIN cache
                   /\ now - cache[key].time < cache_duration
                   /\ call'[c].result = cache[key].data
             /\ (/\ Starts(c)
                 /\ key \in DOMAIN cache
                 /\ now - cache[key].time >= cache_duration)
                   => call'[c].pc \in {"sleeping", "requesting"}
             /\ (call[c].pc = "sleeping" /\ call'[c] # call[c])
                   => (call'[c].pc = "requesting" /\ call'[c].net = 1)
             /\ (/\ call[c].pc = "requesting"
                 /\ call'[c].pc # "requesting"
                 /\ call'[c].outcome \in FailureOutcomes)
                   => /\ call'[c].pc = "returned"
                      /\ call'[c].result.data_source = "fallback_estimates"
                      /\ cache' = cache]_vars

\* C27 witness: the entry of a call's key is 600 s old or older, the call's
\* request failed and it returned the fallback; the entry is still there
C27_Witness ==
    \E c \in Callers :
        /\ call[c].pc = "returned"
        /\ call[c].net = 1
        /\ call[c].outcome \in FailureOutcomes
        /\ call[c].result.data_source = "fallback_estimates"
        /\ KeyOf(c) \in DOMAIN cache
        /\ now - cache[KeyOf(c)].time >= cache_duration
        /\ cache[KeyOf(c)].data.data_source = "open_meteo"

(***************************************************************************)
(* Claims about the order of the steps of a request (SpecBatch).           *)
(***************************************************************************)
\* the batch the k-th area belongs to, counted from 0
BatchOf(k) == (k - 1) \div batch_size

\* the number of batches of a request of n areas
BatchCount(n) == (n + batch_size - 1) \div batch_size

\* C21: the areas are processed in consecutive batches of at most
\* batch_size, in input order; no pipeline of a batch exists before every
\* pipeline of the batches before it is done; one pacing delay precedes
\* every batch but the first and none follows the last, so a request of
\* N > 0 areas incurs exactly ceil(N / batch_size) - 1 delays.
C21_BatchesPaced ==
    LET N == Len(request.areas) IN
    /\ Len(tasks) <= N
    /\ \A k \in DOMAIN tasks : tasks[k].area = request.areas[k]
    /\ \A j, k \in DOMAIN tasks :
          BatchOf(j) < BatchOf(k) => tasks[j].pc = "done"
    /\ req_pc = "gather" =>
          /\ Len(tasks) = Min(batch_i + batch_size, N)
          /\ delays = BatchOf(batch_i + 1)
    /\ req_pc = "sleep" =>
          /\ \A k \in DOMAIN tasks : tasks[k].pc = "done"
          /\ Len(tasks) < N
          /\ Len(tasks) = batch_i
          /\ delays = BatchOf(batch_i + 1)
    /\ (req_pc = "loop" /\ batch_i < N) =>
          /\ Len(tasks) = batch_i
          /\ delays = BatchOf(batch_i + 1)
    /\ ((req_pc = "loop" /\ batch_i >= N) \/ req_pc = "returned") =>
          /\ Len(tasks) = N
          /\ delays = IF N = 0 THEN 0 ELSE BatchCount(N) - 1

\* C21 witness: a request of more than one batch was answered after one
\* pacing delay
C21_Witness ==
    /\ Returned
    /\ Len(request.areas) > batch_size
    /\ Len(response.predictions) = Len(request.areas)
    /\ delays = 1

\* the 48 slots of a complete feature vector
FeaturesComplete(f) == DOMAIN f = SeqRange(expected_features)

\* C22: the stages of one area's pipeline are sequential: no features
\* before that area's weather call has returned or been replaced by the
\* default weather, the features are built from that weather data, and no
\* inference before the feature vector is complete; the pipelines of one
\* batch are not ordered among themselves.
C22_StagesSequential ==
    \A k \in DOMAIN tasks :
        LET t == tasks[k] IN
        /\ t.pc = "weather" =>
              /\ t.weather = "none"
              /\ t.weather_data = NoInput
              /\ t.features = NoFeatures
              /\ t.answer = NoInput
              /\ t.result = NoPrediction
        /\ t.features # NoFeatures =>
              /\ t.weather # "none"
              /\ t.weather_data # NoInput
              /\ FeaturesComplete(t.features)
              /\ t.features.temperature_f =
                     Get(t.weather_data, "temperature_f", QInt(75))
        /\ t.pc = "inference" =>
              /\ FeaturesComplete(t.features)
              /\ t.answer = NoInput
              /\ t.result = NoPrediction
        /\ t.answer # NoInput =>
              /\ t.pc = "done"
              /\ t.weather # "none"
              /\ t.failed = "none"

\* C22 witness: in one batch the second area's pipeline is done, inference
\* included, while the first area's still waits for its weather
C22_Witness ==
    \E j, k \in DOMAIN tasks :
        /\ j < k
        /\ BatchOf(j) = BatchOf(k)
        /\ tasks[j].pc = "weather"
        /\ tasks[k].pc = "done"
        /\ tasks[k].failed = "none"
        /\ tasks[k].answer # NoInput

C23_PredictorUntouched ==
    [][predictor_models' = predictor_models]_vars

SlotOf(entry) == CHOOSE i \in Slots : expected_titles[i] = entry.factor

\* |normalized value x importance| of slot i in the inference made
MagnitudeOf(i) ==
    QAbs(QMul(inference_result.X_scaled[i],
              inference_input.feature_importance[i]))

\* C24: the contributing factors are exactly 5 entries, for 5 different
\* features none of which has a smaller |normalized value x importance|
\* than a feature left out, listed in descending order of that magnitude;
\* each carries the name of its feature, the signed contribution of that
\* slot and the raw value of that slot.
C24_TopFiveFactors ==
    Inferred =>
        LET tf == inference_result.top_factors
            chosen == { SlotOf(tf[k]) : k \in DOMAIN tf }
        IN /\ Len(tf) = 5
           /\ \A k \in DOMAIN tf : tf[k].factor \in SeqRange(expected_titles)
           /\ Cardinality(chosen) = 5
           /\ \A k \in 1..4 :
                 QGe(MagnitudeOf(SlotOf(tf[k])), MagnitudeOf(SlotOf(tf[k + 1])))
           /\ \A i \in Slots \ chosen :
                 QLe(MagnitudeOf(i), MagnitudeOf(SlotOf(tf[5])))
           /\ \A k \in DOMAIN tf :
                 /\ tf[k].contribution =
                        QMul(inference_result.X_scaled[SlotOf(tf[k])],
                             inference_input.feature_importance[SlotOf(tf[k])])
                 /\ tf[k].value = inference_result.X[SlotOf(tf[k])]

\* C24 witness: the scaler changes the values, a negative contribution is
\* among the five, and the fifth place is tied with a feature left out
C24_Witness ==
    /\ Inferred
    /\ inference_result.X_scaled # inference_result.X
    /\ \E k \in 1..5 : inference_result.top_factors[k].contribution.n < 0
    /\ \E i \in Slots :
          /\ \A k \in 1..5 : SlotOf(inference_result.top_factors[k]) # i
          /\ MagnitudeOf(i) =
                 MagnitudeOf(SlotOf(inference_result.top_factors[5]))

====
